---- MODULE Spec2Model ----
(***************************************************************************)
(* Two-phase-commit orchestrator of Teye-Contracts:                        *)
(*   contracts/orchestrator/src/transaction.rs  (TransactionManager)       *)
(*   contracts/orchestrator/src/rollback.rs     (RollbackManager)          *)
(*   contracts/orchestrator/src/validation.rs   (validator functions)      *)
(*   contracts/orchestrator/src/deadlock.rs     (DeadlockDetector)          *)
(* Every handler is one atomic action.  The outcome of each participant    *)
(* call (try_invoke) is an input of the action; the calls made and the     *)
(* events published by the handler are recorded, in order, in last.trace.  *)
(***************************************************************************)
EXTENDS Integers, Sequences, FiniteSets, TLC

\* ---------------------------------------------------------------- bounds
MaxOps == 2         \* operations per transaction
MaxTime == 1        \* ledger timestamps 0..MaxTime
MaxIds == 2         \* length of the operation_ids argument of partial_rollback
NumRes == 2         \* resource identifiers 1..NumRes
NumLockTx == 3      \* transaction ids 1..NumLockTx may hold locks
MaxLocks == 3       \* entries of the resource lock table
NumAddr == 2        \* addresses 1..NumAddr
MaxTimeouts == 2    \* entries of contract_timeouts in a timeout configuration
WordBits == 3       \* width of the timestamps of is_transaction_expired_check (u64 scaled)
MaxSegs == 2        \* segments a sampled function name is built from
NumGuardians == 2   \* guardian addresses 1..NumGuardians are arguments of the identity hooks
NumProofs == 2      \* proofs 1..NumProofs are submitted to the zk verifier
MaxProofId == 2     \* proof ids the zk verifier hands out
MaxBatch == 2       \* proofs in one batch

\* The handlers act on one TransactionLog at a time and share no state across
\* transactions but the store keyed by transaction_id: one transaction is modelled.
TxIds == {1}
OpIdx == 1..MaxOps
MissingTx == CHOOSE t \in 1..(Cardinality(TxIds) + 1) : t \notin TxIds     \* a transaction id under which nothing is stored
MissingOp == MaxOps + 1     \* an operation id no log contains

Resources == 1..NumRes
LockTxIds == 1..NumLockTx
\* Operation id locks one resource, operations taking the resources in turn.
ResourceOf(id) == ((id + NumRes - 1) % NumRes) + 1

Phases == {"Initiated", "Preparing", "Prepared", "Committed", "RolledBack", "TimedOut"}
TerminalPhases == {"Committed", "RolledBack", "TimedOut"}

VARIABLES
    log,        \* log[t]: the caller's in-memory TransactionLog of transaction t
    store,      \* store[t]: the TransactionLog persisted under transaction id t
    now,        \* env.ledger().timestamp()
    last,       \* the latest handler invocation: name, arguments, result, trace,
                \* and in last.prior the name, argument and result of the one before
    prepareOk,  \* prepareOk[t]: operation ids whose prepare entry point has succeeded
    commitOk,   \* commitOk[t]: operation ids whose commit entry point has succeeded
    rollbackOk, \* rollbackOk[t]: operation ids whose rollback entry point has succeeded
    locks,      \* RESOURCE_LOCKS: the persisted sequence of <<resource, transaction id>>
    dd,         \* the latest DeadlockDetector call: name, arguments, lock table read,
                \* result, and in dd.prior the detection run before it
    val,        \* the latest call of a stateless function or of a participant's
                \* initialize: name, arguments, result
    contracts   \* the instance storage of the participant contracts

vars == <<log, store, now, last, prepareOk, commitOk, rollbackOk, locks, dd, val, contracts>>

\* ---------------------------------------------------------------- data model
NoError == "None"

\* A freshly created operation: not prepared, not committed, no error.
NewOperation(id) ==
    [operation_id |-> id, contract_address |-> "addr", locked_resources |-> <<ResourceOf(id)>>,
     prepared |-> FALSE, committed |-> FALSE, error |-> NoError]

\* A freshly created transaction log with n operations, in phase Initiated.
NewLog(t, n) ==
    [transaction_id |-> t, phase |-> "Initiated",
     operations |-> [i \in 1..n |-> NewOperation(i)],
     updated_at |-> 0]

\* One entry of an invocation's trace: a participant call or a published event.
Call(name, op, ok) == [kind |-> "call", name |-> name, op |-> op, ok |-> ok]
Event(name, op) == [kind |-> "event", name |-> name, op |-> op, ok |-> TRUE]

\* ---------------------------------------------------------------- validation.rs
\* Variant of the whitelist that lets a committed log be prepared again.
validate_phase_transition_reopening(from_phase, to_phase) ==
    IF \/ (from_phase = "Preparing" /\ to_phase = "Prepared")
       \/ (from_phase = "Prepared" /\ to_phase = "Committed")
       \/ (from_phase = "Prepared" /\ to_phase = "RolledBack")
       \/ (from_phase = "Preparing" /\ to_phase = "RolledBack")
       \/ (from_phase = "Preparing" /\ to_phase = "TimedOut")
       \/ (from_phase = "Prepared" /\ to_phase = "TimedOut")
       \/ (from_phase = "Committed" /\ to_phase = "Preparing")
    THEN "Ok"
    ELSE "InvalidPhase"

validate_phase_transition(from_phase, to_phase) ==
    IF \/ (from_phase = "Preparing" /\ to_phase = "Prepared")
       \/ (from_phase = "Prepared" /\ to_phase = "Committed")
       \/ (from_phase = "Prepared" /\ to_phase = "RolledBack")
       \/ (from_phase = "Preparing" /\ to_phase = "RolledBack")
       \/ (from_phase = "Preparing" /\ to_phase = "TimedOut")
       \/ (from_phase = "Prepared" /\ to_phase = "TimedOut")
    THEN "Ok"
    ELSE "InvalidPhase"

\* ---------------------------------------------------------------- transaction.rs
\* call_prepare_function: the participant's answer is the input ok.
call_prepare_function(operation, ok) ==
    IF ok
    THEN [ret |-> "Ok", trace |-> <<Call("prepare", operation.operation_id, TRUE)>>]
    ELSE [ret |-> "ContractCallFailed",
          trace |-> <<Call("prepare", operation.operation_id, FALSE),
                      Event("PREP_ERR", operation.operation_id)>>]

\* call_commit_function: the participant's answer is the input ok.
call_commit_function(operation, ok) ==
    IF ok
    THEN [ret |-> "Ok", trace |-> <<Call("commit", operation.operation_id, TRUE)>>]
    ELSE [ret |-> "ContractCallFailed",
          trace |-> <<Call("commit", operation.operation_id, FALSE),
                      Event("COMMIT_ERR", operation.operation_id)>>]

\* The for loop of prepare_phase from index i on.  The failing operation's
\* error is set on a clone only; the loop returns without touching the log.
RECURSIVE PrepareLoop(_, _, _, _, _)
PrepareLoop(operations, outcome, i, prepared_operations, tr) ==
    IF i > Len(operations)
    THEN [ret |-> "Ok", prepared_operations |-> prepared_operations, trace |-> tr]
    ELSE LET operation == operations[i]
             r == call_prepare_function(operation, outcome[i])
         IN IF r.ret = "Ok"
            THEN PrepareLoop(operations, outcome, i + 1,
                     Append(prepared_operations, [operation EXCEPT !.prepared = TRUE]),
                     tr \o r.trace \o <<Event("operation_prepared", operation.operation_id)>>)
            ELSE [ret |-> "ContractCallFailed",
                  prepared_operations |-> prepared_operations,
                  trace |-> tr \o r.trace \o <<Event("operation_failed", operation.operation_id)>>]

\* Variant of the loop that goes on after a failed prepare call, keeping the
\* failed operation unprepared in the list.
RECURSIVE PrepareLoopIgnoringFailure(_, _, _, _, _)
PrepareLoopIgnoringFailure(operations, outcome, i, prepared_operations, tr) ==
    IF i > Len(operations)
    THEN [ret |-> "Ok", prepared_operations |-> prepared_operations, trace |-> tr]
    ELSE LET operation == operations[i]
             r == call_prepare_function(operation, outcome[i])
         IN IF r.ret = "Ok"
            THEN PrepareLoopIgnoringFailure(operations, outcome, i + 1,
                     Append(prepared_operations, [operation EXCEPT !.prepared = TRUE]),
                     tr \o r.trace \o <<Event("operation_prepared", operation.operation_id)>>)
            ELSE PrepareLoopIgnoringFailure(operations, outcome, i + 1,
                     Append(prepared_operations, operation),
                     tr \o r.trace \o <<Event("operation_failed", operation.operation_id)>>)

\* Variant of prepare_phase that reaches Prepared although a prepare call failed.
prepare_phase_ignoring_failure(l, outcome, ts) ==
    LET log1 == [l EXCEPT !.phase = "Preparing"]
        r == PrepareLoopIgnoringFailure(log1.operations, outcome, 1, <<>>, <<>>)
        log2 == [log1 EXCEPT !.operations = r.prepared_operations,
                             !.phase = "Prepared",
                             !.updated_at = ts]
    IN [ret |-> "Ok", log |-> log2, writes |-> <<log1, log2>>,
        trace |-> r.trace \o <<Event("transaction_prepared", 0)>>]

\* Variant of prepare_phase that sets the phase to Prepared before the calls.
prepare_phase_prepared_first(l, outcome, ts) ==
    LET log1 == [l EXCEPT !.phase = "Prepared"]
        r == PrepareLoop(log1.operations, outcome, 1, <<>>, <<>>)
    IN IF r.ret = "Ok"
       THEN LET log2 == [log1 EXCEPT !.operations = r.prepared_operations,
                                     !.updated_at = ts]
            IN [ret |-> "Ok", log |-> log2, writes |-> <<log1, log2>>,
                trace |-> r.trace \o <<Event("transaction_prepared", 0)>>]
       ELSE [ret |-> r.ret, log |-> log1, writes |-> <<log1>>, trace |-> r.trace]

\* Variant of prepare_phase that publishes the transaction-prepared event
\* before it calls the participants.
prepare_phase_announcing_first(l, outcome, ts) ==
    LET log1 == [l EXCEPT !.phase = "Preparing"]
        r == PrepareLoop(log1.operations, outcome, 1, <<>>, <<>>)
    IN IF r.ret = "Ok"
       THEN LET log2 == [log1 EXCEPT !.operations = r.prepared_operations,
                                     !.phase = "Prepared",
                                     !.updated_at = ts]
            IN [ret |-> "Ok", log |-> log2, writes |-> <<log1, log2>>,
                trace |-> <<Event("transaction_prepared", 0)>> \o r.trace]
       ELSE [ret |-> r.ret, log |-> log1, writes |-> <<log1>>,
             trace |-> <<Event("transaction_prepared", 0)>> \o r.trace]

\* prepare_phase(&mut log).  writes: the logs handed to set_transaction_log, in order.
prepare_phase(l, outcome, ts) ==
    LET log1 == [l EXCEPT !.phase = "Preparing"]
        r == PrepareLoop(log1.operations, outcome, 1, <<>>, <<>>)
    IN IF r.ret = "Ok"
       THEN LET log2 == [log1 EXCEPT !.operations = r.prepared_operations,
                                     !.phase = "Prepared",
                                     !.updated_at = ts]
            IN [ret |-> "Ok", log |-> log2, writes |-> <<log1, log2>>,
                trace |-> r.trace \o <<Event("transaction_prepared", 0)>>]
       ELSE [ret |-> r.ret, log |-> log1, writes |-> <<log1>>, trace |-> r.trace]

\* The for loop of commit_phase from index i on.
RECURSIVE CommitLoop(_, _, _, _, _)
CommitLoop(operations, outcome, i, committed_operations, tr) ==
    IF i > Len(operations)
    THEN [ret |-> "Ok", committed_operations |-> committed_operations, trace |-> tr]
    ELSE LET operation == operations[i]
         IN IF ~operation.prepared
            THEN [ret |-> "InvalidPhase", committed_operations |-> committed_operations,
                  trace |-> tr]
            ELSE LET r == call_commit_function(operation, outcome[i])
                 IN IF r.ret = "Ok"
                    THEN CommitLoop(operations, outcome, i + 1,
                             Append(committed_operations, [operation EXCEPT !.committed = TRUE]),
                             tr \o r.trace \o <<Event("operation_committed", operation.operation_id)>>)
                    ELSE [ret |-> "ContractCallFailed",
                          committed_operations |-> committed_operations,
                          trace |-> tr \o r.trace \o <<Event("operation_failed", operation.operation_id)>>]

\* Variant of commit_phase without the phase guard of its first line.
commit_phase_without_phase_guard(l, outcome, ts) ==
    LET r == CommitLoop(l.operations, outcome, 1, <<>>, <<>>)
    IN IF r.ret = "Ok"
       THEN LET log2 == [l EXCEPT !.operations = r.committed_operations,
                                  !.updated_at = ts]
            IN [ret |-> "Ok", log |-> log2, writes |-> <<log2>>, trace |-> r.trace]
       ELSE [ret |-> r.ret, log |-> l, writes |-> <<>>, trace |-> r.trace]

\* Variant of commit_phase that returns Ok without storing committed_operations
\* in the log.
commit_phase_dropping_operations(l, outcome, ts) ==
    IF l.phase # "Prepared"
    THEN [ret |-> "InvalidPhase", log |-> l, writes |-> <<>>, trace |-> <<>>]
    ELSE LET r == CommitLoop(l.operations, outcome, 1, <<>>, <<>>)
         IN IF r.ret = "Ok"
            THEN LET log2 == [l EXCEPT !.updated_at = ts]
                 IN [ret |-> "Ok", log |-> log2, writes |-> <<log2>>, trace |-> r.trace]
            ELSE [ret |-> r.ret, log |-> l, writes |-> <<>>, trace |-> r.trace]

\* Variant of commit_phase that checks neither the phase of the log nor the
\* prepared flag of an operation before committing it.
commit_phase_unchecked(l, outcome, ts) ==
    LET committed_operations == [i \in 1..Len(l.operations) |->
                                    [l.operations[i] EXCEPT !.committed = TRUE]]
        tr == [i \in 1..(2 * Len(l.operations)) |->
                  IF i % 2 = 1
                  THEN Call("commit", l.operations[(i + 1) \div 2].operation_id, TRUE)
                  ELSE Event("operation_committed", l.operations[i \div 2].operation_id)]
        log2 == [l EXCEPT !.operations = committed_operations, !.updated_at = ts]
    IN [ret |-> "Ok", log |-> log2, writes |-> <<log2>>, trace |-> tr]

\* Variant of commit_phase that moves the log to Committed and announces it.
commit_phase_moving_to_committed(l, outcome, ts) ==
    IF l.phase # "Prepared"
    THEN [ret |-> "InvalidPhase", log |-> l, writes |-> <<>>, trace |-> <<>>]
    ELSE LET r == CommitLoop(l.operations, outcome, 1, <<>>, <<>>)
         IN IF r.ret = "Ok"
            THEN LET log2 == [l EXCEPT !.operations = r.committed_operations,
                                       !.phase = "Committed",
                                       !.updated_at = ts]
                 IN [ret |-> "Ok", log |-> log2, writes |-> <<log2>>,
                     trace |-> r.trace \o <<Event("transaction_committed", 0)>>]
            ELSE [ret |-> r.ret, log |-> l, writes |-> <<>>, trace |-> r.trace]

\* commit_phase(&mut log)
commit_phase(l, outcome, ts) ==
    IF l.phase # "Prepared"
    THEN [ret |-> "InvalidPhase", log |-> l, writes |-> <<>>, trace |-> <<>>]
    ELSE LET r == CommitLoop(l.operations, outcome, 1, <<>>, <<>>)
         IN IF r.ret = "Ok"
            THEN LET log2 == [l EXCEPT !.operations = r.committed_operations,
                                       !.updated_at = ts]
                 IN [ret |-> "Ok", log |-> log2, writes |-> <<log2>>, trace |-> r.trace]
            ELSE [ret |-> r.ret, log |-> l, writes |-> <<>>, trace |-> r.trace]

\* A can_commit that looks at the operations only.
can_commit_ignoring_phase(l) ==
    \A i \in 1..Len(l.operations) : l.operations[i].prepared

\* can_commit(&log)
can_commit(l) ==
    IF l.phase = "Prepared"
    THEN \A i \in 1..Len(l.operations) : l.operations[i].prepared
    ELSE FALSE

\* ---------------------------------------------------------------- rollback.rs
\* rollback_operation: the participant's answer is the input ok.
rollback_operation(operation, ok) ==
    IF ok
    THEN [ret |-> "Ok", trace |-> <<Call("rollback", operation.operation_id, TRUE)>>]
    ELSE [ret |-> "RollbackFailed",
          trace |-> <<Call("rollback", operation.operation_id, FALSE),
                      Event("ROLLBACK_ERR", operation.operation_id)>>]

\* The reverse for loop of rollback_transaction from index i down.
RECURSIVE RollbackLoop(_, _, _, _, _)
RollbackLoop(operations, outcome, i, rollback_failed, tr) ==
    IF i < 1
    THEN [rollback_failed |-> rollback_failed, trace |-> tr]
    ELSE LET operation == operations[i]
         IN IF operation.prepared /\ ~operation.committed
            THEN LET r == rollback_operation(operation, outcome[i])
                 IN IF r.ret = "Ok"
                    THEN RollbackLoop(operations, outcome, i - 1, rollback_failed,
                             tr \o r.trace \o <<Event("operation_rolled_back", operation.operation_id)>>)
                    ELSE RollbackLoop(operations, outcome, i - 1, TRUE,
                             tr \o r.trace \o <<Event("rollback_failed", operation.operation_id)>>)
            ELSE RollbackLoop(operations, outcome, i - 1, rollback_failed, tr)

\* Variant of the loop that walks the operations in list order.
RECURSIVE RollbackLoopForward(_, _, _, _, _)
RollbackLoopForward(operations, outcome, i, rollback_failed, tr) ==
    IF i > Len(operations)
    THEN [rollback_failed |-> rollback_failed, trace |-> tr]
    ELSE LET operation == operations[i]
         IN IF operation.prepared /\ ~operation.committed
            THEN LET r == rollback_operation(operation, outcome[i])
                 IN IF r.ret = "Ok"
                    THEN RollbackLoopForward(operations, outcome, i + 1, rollback_failed,
                             tr \o r.trace \o <<Event("operation_rolled_back", operation.operation_id)>>)
                    ELSE RollbackLoopForward(operations, outcome, i + 1, TRUE,
                             tr \o r.trace \o <<Event("rollback_failed", operation.operation_id)>>)
            ELSE RollbackLoopForward(operations, outcome, i + 1, rollback_failed, tr)

\* Variant of rollback_transaction undoing the operations first to last.
rollback_transaction_forward(l, outcome) ==
    LET r == RollbackLoopForward(l.operations, outcome, 1, FALSE, <<>>)
    IN [ret |-> IF r.rollback_failed THEN "RollbackFailed" ELSE "Ok",
        log |-> l, writes |-> <<>>, trace |-> r.trace]

\* Variant of the loop that returns at the first failed rollback call.
RECURSIVE RollbackLoopAborting(_, _, _, _, _)
RollbackLoopAborting(operations, outcome, i, rollback_failed, tr) ==
    IF i < 1
    THEN [rollback_failed |-> rollback_failed, trace |-> tr]
    ELSE LET operation == operations[i]
         IN IF operation.prepared /\ ~operation.committed
            THEN LET r == rollback_operation(operation, outcome[i])
                 IN IF r.ret = "Ok"
                    THEN RollbackLoopAborting(operations, outcome, i - 1, rollback_failed,
                             tr \o r.trace \o <<Event("operation_rolled_back", operation.operation_id)>>)
                    ELSE [rollback_failed |-> TRUE,
                          trace |-> tr \o r.trace \o <<Event("rollback_failed", operation.operation_id)>>]
            ELSE RollbackLoopAborting(operations, outcome, i - 1, rollback_failed, tr)

\* Variant of rollback_transaction that is abortive instead of best-effort.
rollback_transaction_aborting(l, outcome) ==
    LET r == RollbackLoopAborting(l.operations, outcome, Len(l.operations), FALSE, <<>>)
    IN [ret |-> IF r.rollback_failed THEN "RollbackFailed" ELSE "Ok",
        log |-> l, writes |-> <<>>, trace |-> r.trace]

\* rollback_transaction(&log): the log is borrowed immutably, nothing is persisted.
rollback_transaction(l, outcome) ==
    LET r == RollbackLoop(l.operations, outcome, Len(l.operations), FALSE, <<>>)
    IN [ret |-> IF r.rollback_failed THEN "RollbackFailed" ELSE "Ok",
        log |-> l, writes |-> <<>>, trace |-> r.trace]

\* can_rollback(&operation)
can_rollback(operation) ==
    operation.prepared /\ ~operation.committed /\ operation.contract_address # "none"

\* The inner for loop of partial_rollback: index of the first operation with
\* the given id, 0 when there is none (found stays false).
FindOperation(operations, operation_id) ==
    IF \E i \in 1..Len(operations) : operations[i].operation_id = operation_id
    THEN CHOOSE i \in 1..Len(operations) :
            /\ operations[i].operation_id = operation_id
            /\ \A k \in 1..(i - 1) : operations[k].operation_id # operation_id
    ELSE 0

\* The outer for loop of partial_rollback from position j of operation_ids on;
\* outcome[j] is the participant's answer to the j-th rollback call.
RECURSIVE PartialLoop(_, _, _, _, _)
PartialLoop(operations, operation_ids, outcome, j, tr) ==
    IF j > Len(operation_ids)
    THEN [ret |-> "Ok", trace |-> tr]
    ELSE LET i == FindOperation(operations, operation_ids[j])
         IN IF i = 0
            THEN [ret |-> "OperationNotFound", trace |-> tr]
            ELSE IF ~can_rollback(operations[i])
            THEN [ret |-> "InvalidPhase", trace |-> tr]
            ELSE LET r == rollback_operation(operations[i], outcome[j])
                 IN IF r.ret = "Ok"
                    THEN PartialLoop(operations, operation_ids, outcome, j + 1,
                             tr \o r.trace \o <<Event("operation_rolled_back", operation_ids[j])>>)
                    ELSE [ret |-> "RollbackFailed",
                          trace |-> tr \o r.trace \o <<Event("rollback_failed", operation_ids[j])>>]

\* A partial_rollback that walks operation_ids from the last to the first.
partial_rollback_reversed(stored, transaction_id, operation_ids, outcome) ==
    IF transaction_id \notin DOMAIN stored
    THEN [ret |-> "TransactionNotFound", trace |-> <<>>]
    ELSE PartialLoop(stored[transaction_id].operations,
                     [j \in 1..Len(operation_ids) |->
                         operation_ids[Len(operation_ids) + 1 - j]],
                     outcome, 1, <<>>)

\* partial_rollback(transaction_id, operation_ids), reading the persisted log.
partial_rollback(stored, transaction_id, operation_ids, outcome) ==
    IF transaction_id \notin DOMAIN stored
    THEN [ret |-> "TransactionNotFound", trace |-> <<>>]
    ELSE PartialLoop(stored[transaction_id].operations, operation_ids, outcome, 1, <<>>)

\* ---------------------------------------------------------------- validators
\* An operation as the validators see it: function_name, parameters and the
\* entries of locked_resources are given by their lengths.
MAX_PARAMETERS_PER_OPERATION == 10
MaxFunctionNameLen == 64
MaxResourceIdLen == 128

\* validate_address
validate_address(address) ==
    IF address = "none" THEN "InvalidInput" ELSE "Ok"

\* validate_function_name
validate_function_name(len) ==
    IF len = 0 \/ len > MaxFunctionNameLen THEN "InvalidInput" ELSE "Ok"

\* validate_operation_parameters
validate_operation_parameters(count) ==
    IF count > MAX_PARAMETERS_PER_OPERATION THEN "InvalidInput" ELSE "Ok"

\* validate_resource_id
validate_resource_id(len) ==
    IF len = 0 \/ len > MaxResourceIdLen THEN "InvalidInput" ELSE "Ok"

\* validate_transaction_operation of validation.rs
validate_transaction_operation(operation) ==
    IF operation.operation_id = 0 THEN "InvalidInput"
    ELSE IF validate_address(operation.contract_address) # "Ok" THEN "InvalidInput"
    ELSE IF validate_function_name(operation.function_name) # "Ok" THEN "InvalidInput"
    ELSE IF validate_operation_parameters(operation.parameters) # "Ok" THEN "InvalidInput"
    ELSE IF \E k \in 1..Len(operation.locked_resources) :
                validate_resource_id(operation.locked_resources[k]) # "Ok"
    THEN "InvalidInput"
    ELSE "Ok"

\* TransactionManager::validate_operation
validate_operation(operation) ==
    IF operation.contract_address = "none" THEN "InvalidInput"
    ELSE IF operation.function_name = 0 THEN "InvalidInput"
    ELSE IF operation.operation_id = 0 THEN "InvalidInput"
    ELSE "Ok"

\* The duplicate check of validate_transaction from operation k on.
RECURSIVE DuplicateIdFrom(_, _, _)
DuplicateIdFrom(operations, k, operation_ids) ==
    IF k > Len(operations)
    THEN FALSE
    ELSE IF \E i \in 1..Len(operation_ids) : operation_ids[i] = operations[k].operation_id
    THEN TRUE
    ELSE DuplicateIdFrom(operations, k + 1, Append(operation_ids, operations[k].operation_id))

\* TransactionManager::validate_transaction
validate_transaction(operations) ==
    IF operations = <<>> THEN "InvalidInput"
    ELSE IF DuplicateIdFrom(operations, 1, <<>>) THEN "InvalidInput"
    ELSE IF \E k \in 1..Len(operations) : validate_operation(operations[k]) # "Ok"
    THEN "InvalidInput"
    ELSE "Ok"

\* validation.rs, timeouts.  A timeout configuration is a record
\* [default_timeout, max_timeout, contract_timeouts], contract_timeouts being
\* the sequence of the values the map is iterated in.
MIN_TIMEOUT_SECONDS == 30
MAX_TIMEOUT_SECONDS == 86400 * 7

validate_timeout(timeout_seconds) ==
    IF timeout_seconds < MIN_TIMEOUT_SECONDS \/ timeout_seconds > MAX_TIMEOUT_SECONDS
    THEN "InvalidInput"
    ELSE "Ok"

\* Variant of validate_timeout_config that skips the contract-specific timeouts.
validate_timeout_config_skipping_contracts(config) ==
    IF validate_timeout(config.default_timeout) # "Ok" THEN "InvalidInput"
    ELSE IF config.max_timeout < config.default_timeout THEN "InvalidInput"
    ELSE "Ok"

validate_timeout_config(config) ==
    IF validate_timeout(config.default_timeout) # "Ok" THEN "InvalidInput"
    ELSE IF config.max_timeout < config.default_timeout THEN "InvalidInput"
    ELSE IF \E k \in 1..Len(config.contract_timeouts) :
                validate_timeout(config.contract_timeouts[k]) # "Ok"
    THEN "InvalidInput"
    ELSE "Ok"

validate_config_update(caller, admin, new_config) ==
    IF caller # admin THEN "Unauthorized"
    ELSE validate_timeout_config(new_config)

\* u64 arithmetic, at WordBits bits.
U64_MAX == 2 ^ WordBits - 1

\* An addition that wraps around at the word size.
wrapping_add(a, b) == (a + b) % (U64_MAX + 1)

\* u64::saturating_add
saturating_add(a, b) == IF a + b > U64_MAX THEN U64_MAX ELSE a + b

is_transaction_expired_check(created_at, timeout_seconds, current_timestamp) ==
    LET deadline == saturating_add(created_at, timeout_seconds)
    IN current_timestamp > deadline

\* Entry-point names.  A name is the sequence of its characters.
PreparePrefix == <<"p", "r", "e", "p", "a", "r", "e", "_">>
CommitPrefix == <<"c", "o", "m", "m", "i", "t", "_">>
RollbackPrefix == <<"r", "o", "l", "l", "b", "a", "c", "k", "_">>

\* str::starts_with
StartsWith(name, prefix) ==
    /\ Len(name) >= Len(prefix)
    /\ SubSeq(name, 1, Len(prefix)) = prefix

get_prepare_function_name(function_name) ==
    IF StartsWith(function_name, PreparePrefix)
    THEN function_name
    ELSE PreparePrefix \o function_name

get_commit_function_name(function_name) ==
    IF StartsWith(function_name, CommitPrefix)
    THEN function_name
    ELSE CommitPrefix \o function_name

\* A derivation that prepends the prefix whatever the name starts with.
get_rollback_function_name_always_prefixing(function_name) ==
    RollbackPrefix \o function_name

get_rollback_function_name(function_name) ==
    IF StartsWith(function_name, RollbackPrefix)
    THEN function_name
    ELSE RollbackPrefix \o function_name

\* TRUE iff x is an element of the sequence v (Vec::contains).
Contains(v, x) == \E i \in 1..Len(v) : v[i] = x

\* ---------------------------------------------------------------- participants
\* The instance storage of a participant contract: initialized is the presence
\* of the INITIALIZED key, admin the value under ADMIN (NoAddress when absent).
NoAddress == 0

Participants == {"identity", "vision_records", "zk_verifier"}

\* The contracts as deployed, before any call.
Deployed ==
    [identity |-> [initialized |-> FALSE, admin |-> NoAddress, owner_active |-> {},
                   guardians |-> [owner \in 1..NumAddr |-> <<>>],
                   prepared_additions |-> [key \in {} |-> 0]],
     vision_records |-> [initialized |-> FALSE, admin |-> NoAddress],
     zk_verifier |-> [initialized |-> FALSE, admin |-> NoAddress, proof_counter |-> 0,
                      prepared |-> [key \in {} |-> 0],
                      batch_prepared |-> [key \in {} |-> 0],
                      results |-> [key \in {} |-> 0],
                      verifications |-> [key \in {} |-> 0]]]

\* recovery::set_owner_active
set_owner_active(storage, owner) ==
    [storage EXCEPT !.owner_active = storage.owner_active \cup {owner}]

\* IdentityContract::initialize(env, owner)
IdentityContract_initialize(storage, owner) ==
    IF storage.initialized
    THEN [ret |-> "AlreadyInitialized", storage |-> storage]
    ELSE [ret |-> "Ok",
          storage |-> set_owner_active([storage EXCEPT !.admin = owner,
                                                       !.initialized = TRUE], owner)]

\* VisionRecordsContract::initialize(env, admin); authorized is whether
\* admin.require_auth() passes, and the call traps when it does not.
VisionRecordsContract_initialize(storage, admin, authorized) ==
    IF storage.initialized
    THEN [ret |-> "AlreadyInitialized", storage |-> storage]
    ELSE IF ~authorized
    THEN [ret |-> "Trap", storage |-> storage]
    ELSE [ret |-> "Ok", storage |-> [storage EXCEPT !.admin = admin, !.initialized = TRUE]]

\* An initialize that does not look at the INITIALIZED key.
ZkVerifierContract_initialize_unguarded(storage, admin) ==
    [ret |-> "Ok",
     storage |-> [storage EXCEPT !.admin = admin, !.initialized = TRUE, !.proof_counter = 0]]

\* ZkVerifierContract::initialize(env, admin)
ZkVerifierContract_initialize(storage, admin) ==
    IF storage.initialized
    THEN [ret |-> "AlreadyInitialized", storage |-> storage]
    ELSE [ret |-> "Ok",
          storage |-> [storage EXCEPT !.admin = admin, !.initialized = TRUE,
                                      !.proof_counter = 0]]

\* The 2PC hooks of the identity contract.  storage.guardians[owner] is the
\* guardian list of the recovery module, storage.prepared_additions the
\* temporary entries under PREP_ADD_GUARD, keyed by <<caller, guardian>>.
MAX_GUARDIANS == 5

\* recovery::is_owner_active
is_owner_active(storage, owner) == owner \in storage.owner_active

\* recovery::get_guardians
get_guardians(storage, owner) == storage.guardians[owner]

\* recovery::add_guardian: a list of at most MAX_GUARDIANS guardians without
\* duplicates.
recovery_add_guardian(storage, owner, guardian) ==
    IF Contains(storage.guardians[owner], guardian)
    THEN [ret |-> "GuardianAlreadyExists", storage |-> storage]
    ELSE IF Len(storage.guardians[owner]) >= MAX_GUARDIANS
    THEN [ret |-> "TooManyGuardians", storage |-> storage]
    ELSE [ret |-> "Ok",
          storage |-> [storage EXCEPT !.guardians[owner] = Append(@, guardian)]]

require_active_owner(storage, caller) ==
    IF ~is_owner_active(storage, caller) THEN "Unauthorized" ELSE "Ok"

\* env.storage().temporary(): set and remove.
TemporarySet(entries, key, data) ==
    [k \in DOMAIN entries \cup {key} |-> IF k = key THEN data ELSE entries[k]]

TemporaryRemove(entries, key) == [k \in DOMAIN entries \ {key} |-> entries[k]]

prepare_add_guardian(storage, caller, guardian, ts) ==
    IF require_active_owner(storage, caller) # "Ok"
    THEN [ret |-> "Unauthorized", storage |-> storage]
    ELSE LET guardians == get_guardians(storage, caller)
         IN IF Contains(guardians, guardian)
            THEN [ret |-> "GuardianAlreadyExists", storage |-> storage]
            ELSE IF Len(guardians) >= 5
            THEN [ret |-> "TooManyGuardians", storage |-> storage]
            ELSE LET prep_key == <<caller, guardian>>
                     prep_data == [caller |-> caller, guardian |-> guardian, timestamp |-> ts]
                 IN [ret |-> "Ok",
                     storage |-> [storage EXCEPT !.prepared_additions =
                                     TemporarySet(@, prep_key, prep_data)]]

\* A commit hook that adds the guardian without looking for a preparation.
commit_add_guardian_unprepared(storage, caller, guardian) ==
    LET prep_key == <<caller, guardian>>
        r == recovery_add_guardian(storage, caller, guardian)
    IN IF r.ret # "Ok"
       THEN [ret |-> r.ret, storage |-> storage]
       ELSE [ret |-> "Ok",
             storage |-> [r.storage EXCEPT !.prepared_additions = TemporaryRemove(@, prep_key)]]

\* An error return reverts the writes of the invocation.
commit_add_guardian(storage, caller, guardian) ==
    LET prep_key == <<caller, guardian>>
    IN IF prep_key \notin DOMAIN storage.prepared_additions
       THEN [ret |-> "Unauthorized", storage |-> storage]
       ELSE LET prep_data == storage.prepared_additions[prep_key]
            IN IF prep_data.caller # caller \/ prep_data.guardian # guardian
               THEN [ret |-> "Unauthorized", storage |-> storage]
               ELSE LET r == recovery_add_guardian(storage, caller, guardian)
                    IN IF r.ret # "Ok"
                       THEN [ret |-> r.ret, storage |-> storage]
                       ELSE [ret |-> "Ok",
                             storage |-> [r.storage EXCEPT !.prepared_additions =
                                             TemporaryRemove(@, prep_key)]]

rollback_add_guardian(storage, caller, guardian) ==
    [ret |-> "Ok",
     storage |-> [storage EXCEPT !.prepared_additions = TemporaryRemove(@, <<caller, guardian>>)]]

\* The zk verifier.  storage.prepared and storage.batch_prepared are the
\* temporary entries under PREP_VERIFY and PREP_BATCH_VERIFY, storage.results
\* the entries under VERIFICATION_RESULTS and storage.verifications the
\* records of the audit module, all keyed by proof id.  The answer of
\* Bn254Verifier::verify_proof is the input verified.  An error return reverts
\* the writes of the invocation.
require_initialized(storage) == IF ~storage.initialized THEN "NotInitialized" ELSE "Ok"

\* audit::log_verification
log_verification(storage, submitter, proof_id, verified, ts) ==
    [storage EXCEPT !.verifications =
        TemporarySet(@, proof_id, [submitter |-> submitter, proof_id |-> proof_id,
                                   verified |-> verified, timestamp |-> ts])]

\* The VerificationResult stored under proof_id, and its audit record.
StoreResult(storage, proof_id, submitter, public_inputs, verified, timestamp, ts) ==
    log_verification(
        [storage EXCEPT !.results =
            TemporarySet(@, proof_id, [proof_id |-> proof_id, submitter |-> submitter,
                                       public_inputs |-> public_inputs,
                                       verified |-> verified, timestamp |-> timestamp])],
        submitter, proof_id, verified, ts)

\* verify_proof; authorized is whether submitter.require_auth() passes.
verify_proof(storage, submitter, proof, public_inputs, authorized, verified, ts) ==
    IF require_initialized(storage) # "Ok"
    THEN [ret |-> "NotInitialized", ids |-> <<>>, storage |-> storage]
    ELSE IF ~authorized
    THEN [ret |-> "Trap", ids |-> <<>>, storage |-> storage]
    ELSE LET proof_id == saturating_add(storage.proof_counter, 1)
             counted == [storage EXCEPT !.proof_counter = proof_id]
         IN [ret |-> "Ok", ids |-> <<proof_id>>,
             storage |-> StoreResult(counted, proof_id, submitter, public_inputs,
                                     verified, ts, ts)]

PrepareVerification(proof_id, submitter, proof, public_inputs, ts) ==
    [proof_id |-> proof_id, submitter |-> submitter, proof |-> proof,
     public_inputs |-> public_inputs, timestamp |-> ts]

prepare_verify_proof(storage, submitter, proof, public_inputs, ts) ==
    IF require_initialized(storage) # "Ok"
    THEN [ret |-> "NotInitialized", ids |-> <<>>, storage |-> storage]
    ELSE IF public_inputs = <<>>
    THEN [ret |-> "InvalidInput", ids |-> <<>>, storage |-> storage]
    ELSE LET proof_id == saturating_add(storage.proof_counter, 1)
             prep_data == PrepareVerification(proof_id, submitter, proof, public_inputs, ts)
         IN [ret |-> "Ok", ids |-> <<proof_id>>,
             storage |-> [storage EXCEPT !.prepared = TemporarySet(@, proof_id, prep_data)]]

commit_verify_proof(storage, proof_id, verified, ts) ==
    IF require_initialized(storage) # "Ok"
    THEN [ret |-> "NotInitialized", ids |-> <<>>, storage |-> storage]
    ELSE IF proof_id \notin DOMAIN storage.prepared
    THEN [ret |-> "InvalidInput", ids |-> <<>>, storage |-> storage]
    ELSE LET prep_data == storage.prepared[proof_id]
             counted == [storage EXCEPT !.proof_counter = proof_id]
             stored == StoreResult(counted, proof_id, prep_data.submitter,
                                   prep_data.public_inputs, verified, prep_data.timestamp, ts)
         IN [ret |-> "Ok", ids |-> <<>>,
             storage |-> [stored EXCEPT !.prepared = TemporaryRemove(@, proof_id)]]

rollback_verify_proof(storage, proof_id) ==
    [ret |-> "Ok", ids |-> <<>>,
     storage |-> [storage EXCEPT !.prepared = TemporaryRemove(@, proof_id)]]

\* The loop of prepare_batch_verify_proofs from proof i on.
RECURSIVE PrepareBatchLoop(_, _, _, _, _, _, _, _)
PrepareBatchLoop(storage, submitter, proofs, public_inputs_batch, i, start_proof_id, proof_ids, ts) ==
    IF i > Len(proofs)
    THEN [ret |-> "Ok", ids |-> proof_ids, storage |-> storage]
    ELSE IF public_inputs_batch[i] = <<>>
    THEN [ret |-> "InvalidInput", ids |-> <<>>, storage |-> storage]
    ELSE LET next_id == saturating_add(start_proof_id, 1)
             prep_data == PrepareVerification(next_id, submitter, proofs[i],
                                              public_inputs_batch[i], ts)
         IN PrepareBatchLoop(
                [storage EXCEPT !.batch_prepared = TemporarySet(@, next_id, prep_data)],
                submitter, proofs, public_inputs_batch, i + 1, next_id,
                Append(proof_ids, next_id), ts)

prepare_batch_verify_proofs(storage, submitter, proofs, public_inputs_batch, ts) ==
    IF require_initialized(storage) # "Ok"
    THEN [ret |-> "NotInitialized", ids |-> <<>>, storage |-> storage]
    ELSE IF Len(proofs) # Len(public_inputs_batch)
    THEN [ret |-> "InvalidInput", ids |-> <<>>, storage |-> storage]
    ELSE LET r == PrepareBatchLoop(storage, submitter, proofs, public_inputs_batch, 1,
                                   storage.proof_counter, <<>>, ts)
         IN IF r.ret = "Ok" THEN r ELSE [r EXCEPT !.storage = storage]

\* The loop of commit_batch_verify_proofs from position i of proof_ids on.
RECURSIVE CommitBatchLoop(_, _, _, _, _, _)
CommitBatchLoop(storage, proof_ids, verified, i, max_proof_id, ts) ==
    IF i > Len(proof_ids)
    THEN [ret |-> "Ok", ids |-> <<>>,
          storage |-> [storage EXCEPT !.proof_counter = max_proof_id]]
    ELSE LET proof_id == proof_ids[i]
             max2 == IF proof_id > max_proof_id THEN proof_id ELSE max_proof_id
         IN IF proof_id \notin DOMAIN storage.batch_prepared
            THEN [ret |-> "InvalidInput", ids |-> <<>>, storage |-> storage]
            ELSE LET prep_data == storage.batch_prepared[proof_id]
                     stored == StoreResult(storage, proof_id, prep_data.submitter,
                                           prep_data.public_inputs, verified[i],
                                           prep_data.timestamp, ts)
                 IN CommitBatchLoop(
                        [stored EXCEPT !.batch_prepared = TemporaryRemove(@, proof_id)],
                        proof_ids, verified, i + 1, max2, ts)

commit_batch_verify_proofs(storage, proof_ids, verified, ts) ==
    IF require_initialized(storage) # "Ok"
    THEN [ret |-> "NotInitialized", ids |-> <<>>, storage |-> storage]
    ELSE LET r == CommitBatchLoop(storage, proof_ids, verified, 1, 0, ts)
         IN IF r.ret = "Ok" THEN r ELSE [r EXCEPT !.storage = storage]

RECURSIVE RollbackBatchLoop(_, _, _)
RollbackBatchLoop(storage, proof_ids, i) ==
    IF i > Len(proof_ids)
    THEN storage
    ELSE RollbackBatchLoop(
             [storage EXCEPT !.batch_prepared = TemporaryRemove(@, proof_ids[i])],
             proof_ids, i + 1)

rollback_batch_verify_proofs(storage, proof_ids) ==
    [ret |-> "Ok", ids |-> <<>>, storage |-> RollbackBatchLoop(storage, proof_ids, 1)]

\* ---------------------------------------------------------------- deadlock.rs
\* A lock table (RESOURCE_LOCKS) is a sequence of <<resource, transaction id>>;
\* a DependencyGraph is its field dependencies, a sequence of
\* <<from_tx, to_tx, resource>>.

\* DependencyGraph::add_dependency
add_dependency(graph, from_tx, to_tx, resource) ==
    Append(graph, <<from_tx, to_tx, resource>>)

\* DependencyGraph::get_dependencies: the <<to_tx, resource>> of the edges out
\* of transaction, in insertion order.
get_dependencies(graph, transaction) ==
    LET FromTransaction(dependency) == dependency[1] = transaction
        out == SelectSeq(graph, FromTransaction)
    IN [i \in 1..Len(out) |-> <<out[i][2], out[i][3]>>]

\* DependencyGraph::get_all_transactions from edge k on.
RECURSIVE AllTransactionsFrom(_, _, _)
AllTransactionsFrom(graph, k, transactions) ==
    IF k > Len(graph)
    THEN transactions
    ELSE LET t1 == IF Contains(transactions, graph[k][1])
                   THEN transactions ELSE Append(transactions, graph[k][1])
             t2 == IF Contains(t1, graph[k][2]) THEN t1 ELSE Append(t1, graph[k][2])
         IN AllTransactionsFrom(graph, k + 1, t2)

get_all_transactions(graph) == AllTransactionsFrom(graph, 1, <<>>)

\* The grouping loop of add_existing_dependencies: lock k on, tx_resources is
\* a sequence of <<transaction id, resources>>.
RECURSIVE GroupLocks(_, _, _)
GroupLocks(current_locks, k, tx_resources) ==
    IF k > Len(current_locks)
    THEN tx_resources
    ELSE LET resource == current_locks[k][1]
             tx_id == current_locks[k][2]
         IN IF \E i \in 1..Len(tx_resources) : tx_resources[i][1] = tx_id
            THEN LET i == CHOOSE i \in 1..Len(tx_resources) : tx_resources[i][1] = tx_id
                 IN GroupLocks(current_locks, k + 1,
                        [tx_resources EXCEPT ![i] = <<tx_id, Append(tx_resources[i][2], resource)>>])
            ELSE GroupLocks(current_locks, k + 1, Append(tx_resources, <<tx_id, <<resource>>>>))

\* The two innermost loops of add_existing_dependencies for one pair of
\* transactions: position a of resources1, position b of resources2.
RECURSIVE SharePair(_, _, _, _, _, _, _)
SharePair(graph, tx1, resources1, tx2, resources2, a, b) ==
    IF a > Len(resources1)
    THEN graph
    ELSE IF b > Len(resources2)
    THEN SharePair(graph, tx1, resources1, tx2, resources2, a + 1, 1)
    ELSE IF resources1[a] = resources2[b]
    THEN SharePair(add_dependency(add_dependency(graph, tx1, tx2, resources1[a]),
                                  tx2, tx1, resources2[b]),
                   tx1, resources1, tx2, resources2, a, b + 1)
    ELSE SharePair(graph, tx1, resources1, tx2, resources2, a, b + 1)

\* The loops over i and j > i of add_existing_dependencies.
RECURSIVE ShareLoop(_, _, _, _)
ShareLoop(graph, tx_resources, i, j) ==
    IF i > Len(tx_resources)
    THEN graph
    ELSE IF j > Len(tx_resources)
    THEN ShareLoop(graph, tx_resources, i + 1, i + 2)
    ELSE ShareLoop(SharePair(graph, tx_resources[i][1], tx_resources[i][2],
                             tx_resources[j][1], tx_resources[j][2], 1, 1),
                   tx_resources, i, j + 1)

\* Variant that links two transactions sharing a resource in one direction
\* only, from the smaller id to the larger.
add_existing_dependencies_one_way(graph, current_locks) ==
    LET linked == ShareLoop(graph, GroupLocks(current_locks, 1, <<>>), 1, 2)
        Forward(dependency) == dependency[1] < dependency[2]
    IN graph \o SelectSeq(SubSeq(linked, Len(graph) + 1, Len(linked)), Forward)

\* add_existing_dependencies(&mut graph, &current_locks)
add_existing_dependencies(graph, current_locks) ==
    ShareLoop(graph, GroupLocks(current_locks, 1, <<>>), 1, 2)

\* The resources of the operations in the order build_dependency_graph visits them.
RECURSIVE WantedResources(_)
WantedResources(operations) ==
    IF operations = <<>>
    THEN <<>>
    ELSE Head(operations).locked_resources \o WantedResources(Tail(operations))

\* The loops of build_dependency_graph: wanted resource w on, lock k on.
RECURSIVE CandidateLoop(_, _, _, _, _, _)
CandidateLoop(graph, transaction_id, wanted, current_locks, w, k) ==
    IF w > Len(wanted)
    THEN graph
    ELSE IF k > Len(current_locks)
    THEN CandidateLoop(graph, transaction_id, wanted, current_locks, w + 1, 1)
    ELSE IF current_locks[k][1] = wanted[w] /\ current_locks[k][2] # transaction_id
    THEN CandidateLoop(add_dependency(graph, transaction_id, current_locks[k][2], wanted[w]),
                       transaction_id, wanted, current_locks, w, k + 1)
    ELSE CandidateLoop(graph, transaction_id, wanted, current_locks, w, k + 1)

\* Variant in which the holder of a wanted resource also waits for the
\* candidate.
build_dependency_graph_waiting_both_ways(current_locks, transaction_id, operations) ==
    LET wanting == CandidateLoop(<<>>, transaction_id, WantedResources(operations),
                                 current_locks, 1, 1)
        back == [i \in 1..Len(wanting) |-> <<wanting[i][2], wanting[i][1], wanting[i][3]>>]
    IN add_existing_dependencies(wanting \o back, current_locks)

\* build_dependency_graph(&transaction_id, &operations)
build_dependency_graph(current_locks, transaction_id, operations) ==
    add_existing_dependencies(
        CandidateLoop(<<>>, transaction_id, WantedResources(operations), current_locks, 1, 1),
        current_locks)

\* build_current_dependency_graph(&current_locks)
build_current_dependency_graph(current_locks) ==
    add_existing_dependencies(<<>>, current_locks)

\* dfs_has_cycle and the loop over its dependencies from position k on; both
\* return [found, visited, recursion_stack].
RECURSIVE dfs_has_cycle(_, _, _, _)
RECURSIVE DfsLoop(_, _, _, _, _)
dfs_has_cycle(graph, transaction, visited, recursion_stack) ==
    LET r == DfsLoop(graph, get_dependencies(graph, transaction), 1,
                     Append(visited, transaction), Append(recursion_stack, transaction))
    IN IF r.found
       THEN r
       ELSE [found |-> FALSE, visited |-> r.visited,
             recursion_stack |-> SubSeq(r.recursion_stack, 1, Len(r.recursion_stack) - 1)]

DfsLoop(graph, dependencies, k, visited, recursion_stack) ==
    IF k > Len(dependencies)
    THEN [found |-> FALSE, visited |-> visited, recursion_stack |-> recursion_stack]
    ELSE LET dependent_tx == dependencies[k][1]
         IN IF ~Contains(visited, dependent_tx)
            THEN LET r == dfs_has_cycle(graph, dependent_tx, visited, recursion_stack)
                 IN IF r.found
                    THEN r
                    ELSE DfsLoop(graph, dependencies, k + 1, r.visited, r.recursion_stack)
            ELSE IF Contains(recursion_stack, dependent_tx)
            THEN [found |-> TRUE, visited |-> visited, recursion_stack |-> recursion_stack]
            ELSE DfsLoop(graph, dependencies, k + 1, visited, recursion_stack)

\* The loop of has_cycles over the transactions from position k on.
RECURSIVE HasCyclesFrom(_, _, _, _, _)
HasCyclesFrom(graph, transactions, k, visited, recursion_stack) ==
    IF k > Len(transactions)
    THEN FALSE
    ELSE IF ~Contains(visited, transactions[k])
    THEN LET r == dfs_has_cycle(graph, transactions[k], visited, recursion_stack)
         IN IF r.found
            THEN TRUE
            ELSE HasCyclesFrom(graph, transactions, k + 1, r.visited, r.recursion_stack)
    ELSE HasCyclesFrom(graph, transactions, k + 1, visited, recursion_stack)

\* A detector that takes any wait edge for a deadlock.
has_cycles_any_edge(graph) ==
    graph # <<>>

\* has_cycles(&graph)
has_cycles(graph) ==
    HasCyclesFrom(graph, get_all_transactions(graph), 1, <<>>, <<>>)

\* would_cause_deadlock(&transaction_id, &operations)
would_cause_deadlock(current_locks, transaction_id, operations) ==
    has_cycles(build_dependency_graph(current_locks, transaction_id, operations))

\* path.iter().position(|&tx| tx == x): first index of x in path, 0 for None.
Position(path, x) ==
    IF Contains(path, x)
    THEN CHOOSE i \in 1..Len(path) : path[i] = x /\ \A k \in 1..(i - 1) : path[k] # x
    ELSE 0

\* find_cycles_from_node and the loop over its dependencies from position k
\* on; both return [visited, path, cycles].
RECURSIVE find_cycles_from_node(_, _, _, _, _)
RECURSIVE FindCyclesLoop(_, _, _, _, _, _)
find_cycles_from_node(graph, transaction, visited, path, cycles) ==
    LET r == FindCyclesLoop(graph, get_dependencies(graph, transaction), 1,
                            Append(visited, transaction), Append(path, transaction), cycles)
    IN [visited |-> r.visited, path |-> SubSeq(r.path, 1, Len(r.path) - 1), cycles |-> r.cycles]

FindCyclesLoop(graph, dependencies, k, visited, path, cycles) ==
    IF k > Len(dependencies)
    THEN [visited |-> visited, path |-> path, cycles |-> cycles]
    ELSE LET dependent_tx == dependencies[k][1]
             cycle_start == Position(path, dependent_tx)
         IN IF cycle_start # 0
            THEN FindCyclesLoop(graph, dependencies, k + 1, visited, path,
                                Append(cycles, SubSeq(path, cycle_start, Len(path))))
            ELSE IF ~Contains(visited, dependent_tx)
            THEN LET r == find_cycles_from_node(graph, dependent_tx, visited, path, cycles)
                 IN FindCyclesLoop(graph, dependencies, k + 1, r.visited, r.path, r.cycles)
            ELSE FindCyclesLoop(graph, dependencies, k + 1, visited, path, cycles)

\* The loop of find_cycles over the transactions from position k on.
RECURSIVE FindCyclesFrom(_, _, _, _, _, _)
FindCyclesFrom(graph, transactions, k, visited, path, cycles) ==
    IF k > Len(transactions)
    THEN cycles
    ELSE IF ~Contains(visited, transactions[k])
    THEN LET r == find_cycles_from_node(graph, transactions[k], visited, path, cycles)
         IN FindCyclesFrom(graph, transactions, k + 1, r.visited, r.path, r.cycles)
    ELSE FindCyclesFrom(graph, transactions, k + 1, visited, path, cycles)

\* find_cycles(&graph)
find_cycles(graph) ==
    FindCyclesFrom(graph, get_all_transactions(graph), 1, <<>>, <<>>, <<>>)

\* get_conflicting_resources(&cycle) from lock k on.
RECURSIVE ConflictingFrom(_, _, _, _)
ConflictingFrom(current_locks, cycle, k, conflicting_resources) ==
    IF k > Len(current_locks)
    THEN conflicting_resources
    ELSE IF Contains(cycle, current_locks[k][2])
              /\ ~Contains(conflicting_resources, current_locks[k][1])
    THEN ConflictingFrom(current_locks, cycle, k + 1,
                         Append(conflicting_resources, current_locks[k][1]))
    ELSE ConflictingFrom(current_locks, cycle, k + 1, conflicting_resources)

get_conflicting_resources(current_locks, cycle) ==
    ConflictingFrom(current_locks, cycle, 1, <<>>)

\* cycle.iter().min().unwrap()
MinOf(cycle) ==
    CHOOSE m \in {cycle[i] : i \in 1..Len(cycle)} : \A i \in 1..Len(cycle) : m <= cycle[i]

\* A resolver that picks the transaction the cycle was entered at.
resolve_deadlock_first_of_cycle(current_locks, cycle, ts) ==
    [transaction_id |-> cycle[1],
     conflicting_transactions |-> cycle,
     conflicting_resources |-> get_conflicting_resources(current_locks, cycle),
     detected_at |-> ts]

\* resolve_deadlock(&cycle): the DeadlockInfo, also published as an event.
resolve_deadlock(current_locks, cycle, ts) ==
    [transaction_id |-> MinOf(cycle),
     conflicting_transactions |-> cycle,
     conflicting_resources |-> get_conflicting_resources(current_locks, cycle),
     detected_at |-> ts]

\* A detector that also releases the locks of every victim it names.
detect_and_resolve_deadlocks_releasing_victim(current_locks, ts) ==
    IF current_locks = <<>>
    THEN [infos |-> <<>>, events |-> <<>>, locks |-> current_locks]
    ELSE LET cycles == find_cycles(build_current_dependency_graph(current_locks))
             infos == [i \in 1..Len(cycles) |-> resolve_deadlock(current_locks, cycles[i], ts)]
             NotVictim(lock) == \A i \in 1..Len(infos) : infos[i].transaction_id # lock[2]
         IN [infos |-> infos, events |-> infos, locks |-> SelectSeq(current_locks, NotVictim)]

\* detect_and_resolve_deadlocks(): infos is the returned list, events the
\* deadlock_detected events, locks the lock table in storage afterwards.
detect_and_resolve_deadlocks(current_locks, ts) ==
    IF current_locks = <<>>
    THEN [infos |-> <<>>, events |-> <<>>, locks |-> current_locks]
    ELSE LET cycles == find_cycles(build_current_dependency_graph(current_locks))
             infos == [i \in 1..Len(cycles) |-> resolve_deadlock(current_locks, cycles[i], ts)]
         IN [infos |-> infos, events |-> infos, locks |-> current_locks]

\* ---------------------------------------------------------------- state machine
Outcomes == [OpIdx -> BOOLEAN]

\* TRUE iff every participant call recorded in tr succeeded.
AllCallsOk(tr) == \A i \in 1..Len(tr) : tr[i].kind = "call" => tr[i].ok

NoPrior == [fn |-> "none", tx |-> 0, ret |-> "Ok", phase |-> "Initiated", allok |-> TRUE]

NoInvocation ==
    [fn |-> "none", tx |-> 0, ids |-> <<>>, before |-> NewLog(0, 0),
     stored_before |-> NewLog(0, 0), ret |-> "Ok", trace |-> <<>>, prior |-> NoPrior]

\* What the next invocation remembers of invocation inv.
Summary(inv) ==
    [fn |-> inv.fn, tx |-> inv.tx, ret |-> inv.ret, phase |-> inv.before.phase,
     allok |-> AllCallsOk(inv.trace)]

Invocation(fn, t, ids, before, stored_before, ret, tr, prior) ==
    [fn |-> fn, tx |-> t, ids |-> ids, before |-> before, stored_before |-> stored_before,
     ret |-> ret, trace |-> tr, prior |-> prior]

\* Operation ids that received a successful call of the given entry point in tr.
Succeeded(tr, name) ==
    {tr[i].op : i \in {k \in 1..Len(tr) :
                        tr[k].kind = "call" /\ tr[k].name = name /\ tr[k].ok}}

\* set_transaction_log: the persisted log after the writes of one handler.
Persist(st, t, writes) ==
    IF writes = <<>> THEN st ELSE [st EXCEPT ![t] = writes[Len(writes)]]

NoCall == [fn |-> "none", args |-> <<>>, ret |-> "Ok"]

NoDetection ==
    [fn |-> "none", tx |-> 0, operations |-> <<>>, locks |-> <<>>, result |-> FALSE,
     infos |-> <<>>, events |-> <<>>, prior |-> [fn |-> "none", locks |-> <<>>, infos |-> <<>>]]

Init ==
    /\ log \in {f \in [TxIds -> {NewLog(t, n) : t \in TxIds, n \in 1..MaxOps}] :
                   \A t \in TxIds : f[t].transaction_id = t}
    /\ store = log
    /\ now = 0
    /\ last = NoInvocation
    /\ prepareOk = [t \in TxIds |-> {}]
    /\ commitOk = [t \in TxIds |-> {}]
    /\ rollbackOk = [t \in TxIds |-> {}]
    /\ locks = <<>>
    /\ dd = NoDetection
    /\ val = NoCall
    /\ contracts = Deployed

\* Bookkeeping common to every handler invocation on transaction t.
Invoke(fn, t, ids, r) ==
    /\ last' = Invocation(fn, t, ids,
                          IF t \in TxIds THEN log[t] ELSE NewLog(0, 0),
                          IF t \in TxIds THEN store[t] ELSE NewLog(0, 0),
                          r.ret, r.trace, Summary(last))
    /\ prepareOk' = [u \in TxIds |-> IF u = t THEN prepareOk[u] \cup Succeeded(r.trace, "prepare")
                                              ELSE prepareOk[u]]
    /\ commitOk' = [u \in TxIds |-> IF u = t THEN commitOk[u] \cup Succeeded(r.trace, "commit")
                                             ELSE commitOk[u]]
    /\ rollbackOk' = [u \in TxIds |-> IF u = t THEN rollbackOk[u] \cup Succeeded(r.trace, "rollback")
                                               ELSE rollbackOk[u]]
    /\ UNCHANGED <<locks, dd, val, contracts>>

PreparePhase(t) ==
    \E outcome \in Outcomes :
        LET r == prepare_phase(log[t], outcome, now)
        IN /\ Invoke("prepare_phase", t, <<>>, r)
           /\ log' = [log EXCEPT ![t] = r.log]
           /\ store' = Persist(store, t, r.writes)
           /\ UNCHANGED now

CommitPhase(t) ==
    \E outcome \in Outcomes :
        LET r == commit_phase(log[t], outcome, now)
        IN /\ Invoke("commit_phase", t, <<>>, r)
           /\ log' = [log EXCEPT ![t] = r.log]
           /\ store' = Persist(store, t, r.writes)
           /\ UNCHANGED now

RollbackTransaction(t) ==
    \E outcome \in Outcomes :
        LET r == rollback_transaction(log[t], outcome)
        IN /\ Invoke("rollback_transaction", t, <<>>, r)
           /\ log' = [log EXCEPT ![t] = r.log]
           /\ store' = Persist(store, t, r.writes)
           /\ UNCHANGED now

IdLists == UNION {[1..n -> OpIdx \cup {MissingOp}] : n \in 0..MaxIds}

\* The participants' answers to n rollback calls: partial_rollback returns at
\* the first failing call, so the answers are Ok up to a first failure f.
FirstFailure(n) == {[j \in 1..n |-> j < f] : f \in 1..(n + 1)}

\* operation_ids and the answers to the rollback calls are inputs; nothing is
\* stored under MissingTx, whatever the other arguments are.  The call reads
\* the persisted log and writes nothing, so it is not repeated back to back.
PartialRollback(t) ==
    /\ last.fn # "partial_rollback"
    /\ \E operation_ids \in (IF t \in TxIds THEN IdLists ELSE {<<MissingOp>>}) :
      \E outcome \in FirstFailure(Len(operation_ids)) :
        LET r == partial_rollback(store, t, operation_ids, outcome)
        IN /\ Invoke("partial_rollback", t, operation_ids, r)
           /\ UNCHANGED <<log, store, now>>

\* The orchestrating caller moves a log to a terminal phase when the validator
\* allows the transition: to Committed after commit_phase returned Ok, to
\* RolledBack after it ran rollback_transaction, to TimedOut on expiry.
CallerTransition(t, to_phase) ==
    /\ to_phase \in TerminalPhases
    /\ validate_phase_transition(log[t].phase, to_phase) = "Ok"
    /\ to_phase = "Committed" =>
           (last.fn = "commit_phase" /\ last.tx = t /\ last.ret = "Ok")
    /\ to_phase = "RolledBack" =>
           (last.fn = "rollback_transaction" /\ last.tx = t)
    /\ LET l2 == [log[t] EXCEPT !.phase = to_phase, !.updated_at = now]
           r == [ret |-> "Ok", trace |-> <<Event("phase_transition", 0)>>]
       IN /\ Invoke("caller_transition", t, <<>>, r)
          /\ log' = [log EXCEPT ![t] = l2]
          /\ store' = [store EXCEPT ![t] = l2]
          /\ UNCHANGED now

\* The ledger closes and the timestamp advances.
Tick ==
    /\ now < MaxTime
    /\ now' = now + 1
    /\ UNCHANGED <<log, store, last, prepareOk, commitOk, rollbackOk, locks, dd, val, contracts>>

Next ==
    \/ \E t \in TxIds : PreparePhase(t)
    \/ \E t \in TxIds : CommitPhase(t)
    \/ \E t \in TxIds : RollbackTransaction(t)
    \/ \E t \in TxIds, to_phase \in TerminalPhases : CallerTransition(t, to_phase)
    \/ Tick

Spec == Init /\ [][Next]_vars

\* The three handlers of a transaction together with partial_rollback.
NextPartial ==
    \/ \E t \in TxIds : PreparePhase(t)
    \/ \E t \in TxIds : CommitPhase(t)
    \/ \E t \in TxIds : RollbackTransaction(t)
    \/ \E t \in TxIds \cup {MissingTx} : PartialRollback(t)

SpecPartial == Init /\ [][NextPartial]_vars

\* ---------------------------------------------------------------- the detector
\* Resource identifiers are opaque strings the detector only compares for
\* equality: a table names its resources in the order they first appear.
FirstAppearanceOrder(table) ==
    \A i \in 1..Len(table) :
        \A r \in 1..(table[i][1] - 1) : \E k \in 1..(i - 1) : table[k][1] = r

\* Lock tables the detector may read: any sequence of entries, a resource
\* held by one or several transactions, an entry possibly repeated.
LockTables ==
    {table \in UNION {[1..n -> Resources \X LockTxIds] : n \in 0..MaxLocks} :
        FirstAppearanceOrder(table)}

\* Operation lists of a candidate transaction, each operation locking one resource.
CandidateOps ==
    UNION {{[i \in 1..n |-> [NewOperation(i) EXCEPT !.locked_resources = <<w[i]>>]] :
              w \in [1..n -> Resources]} : n \in 1..MaxOps}

InitDeadlock ==
    /\ log = [t \in TxIds |-> NewLog(t, MaxOps)]
    /\ store = log
    /\ now = 0
    /\ last = NoInvocation
    /\ prepareOk = [t \in TxIds |-> {}]
    /\ commitOk = [t \in TxIds |-> {}]
    /\ rollbackOk = [t \in TxIds |-> {}]
    /\ locks \in LockTables
    /\ dd = NoDetection
    /\ val = NoCall
    /\ contracts = Deployed

\* would_cause_deadlock on a lock table no detector call has been made on yet
\* (the detector keeps no state between calls).
WouldCauseDeadlock(t) ==
    /\ dd.fn = "none"
    /\ \E operations \in CandidateOps :
          dd' = [fn |-> "would_cause_deadlock", tx |-> t, operations |-> operations,
                 locks |-> locks, result |-> would_cause_deadlock(locks, t, operations),
                 infos |-> <<>>, events |-> <<>>, prior |-> NoDetection.prior]
    /\ UNCHANGED <<log, store, now, last, prepareOk, commitOk, rollbackOk, locks, val, contracts>>

\* detect_and_resolve_deadlocks, run once or twice in a row.
DetectAndResolve ==
    /\ dd.fn \in {"none", "detect_and_resolve_deadlocks"}
    /\ dd.prior.fn = "none"
    /\ LET r == detect_and_resolve_deadlocks(locks, now)
       IN /\ dd' = [fn |-> "detect_and_resolve_deadlocks", tx |-> 0, operations |-> <<>>,
                    locks |-> locks, result |-> r.infos # <<>>,
                    infos |-> r.infos, events |-> r.events,
                    prior |-> [fn |-> dd.fn, locks |-> dd.locks, infos |-> dd.infos]]
          /\ locks' = r.locks
    /\ UNCHANGED <<log, store, now, last, prepareOk, commitOk, rollbackOk, val, contracts>>

NextDeadlock ==
    \/ \E t \in LockTxIds : WouldCauseDeadlock(t)
    \/ DetectAndResolve

SpecDeadlock == InitDeadlock /\ [][NextDeadlock]_vars

\* ---------------------------------------------------------------- properties
IsCall(e) == e.kind = "call"

\* The participant calls of a trace, in the order they were made.
CallsOf(tr) == SelectSeq(tr, IsCall)

\* The operation ids of a log.
OpIdsOf(l) == {l.operations[i].operation_id : i \in 1..Len(l.operations)}

\* The operation ids of a log that are prepared and not committed.
EligibleIds(l) ==
    {l.operations[i].operation_id :
        i \in {k \in 1..Len(l.operations) :
                  l.operations[k].prepared /\ ~l.operations[k].committed}}

\* Number of calls made to operation id in the trace.
CallCount(tr, id) == Cardinality({i \in 1..Len(tr) : IsCall(tr[i]) /\ tr[i].op = id})

\* The latest invocation is commit_phase straight after prepare_phase on the
\* same log, which was in phase Initiated, and no participant call failed.
PrepareThenCommitAllOk ==
    /\ last.fn = "commit_phase"
    /\ last.prior.fn = "prepare_phase"
    /\ last.prior.tx = last.tx
    /\ last.prior.phase = "Initiated"
    /\ last.prior.allok
    /\ AllCallsOk(last.trace)

\* C1: prepare_phase on an Initiated log followed immediately by commit_phase,
\* with every participant call succeeding: both return Ok and afterwards every
\* operation of the log is prepared and committed and has no error.
C1_PrepareThenCommit ==
    PrepareThenCommitAllOk =>
        /\ last.prior.ret = "Ok"
        /\ last.ret = "Ok"
        /\ Len(log[last.tx].operations) = Len(last.before.operations)
        /\ Len(log[last.tx].operations) >= 1
        /\ \A i \in 1..Len(log[last.tx].operations) :
              /\ log[last.tx].operations[i].prepared
              /\ log[last.tx].operations[i].committed
              /\ log[last.tx].operations[i].error = NoError

C1_Witness ==
    /\ PrepareThenCommitAllOk
    /\ last.ret = "Ok"
    /\ Len(log[last.tx].operations) >= 2
    /\ Len(CallsOf(last.trace)) = Len(log[last.tx].operations)

\* C2: when the prepare call of operation k is the first to fail, prepare_phase
\* returns ContractCallFailed, the log has operations 1..k-1 prepared, operation
\* k with its error set, operations k+1..n unprepared, and no prepare call was
\* sent to k+1..n.
C2_PrepareFailureRecorded ==
    last.fn = "prepare_phase" =>
        \A k \in 1..Len(last.before.operations) :
            Call("prepare", last.before.operations[k].operation_id, FALSE)
                    \in {last.trace[j] : j \in 1..Len(last.trace)} =>
                /\ last.ret = "ContractCallFailed"
                /\ \A i \in 1..(k - 1) : log[last.tx].operations[i].prepared
                /\ log[last.tx].operations[k].error # NoError
                /\ \A i \in (k + 1)..Len(last.before.operations) :
                      /\ ~log[last.tx].operations[i].prepared
                      /\ CallCount(last.trace, last.before.operations[i].operation_id) = 0

\* commit_phase returned and, when it returned an error, rollback_transaction
\* was then run on the log.
CommitSettled ==
    \/ last.fn = "commit_phase" /\ last.ret = "Ok"
    \/ /\ last.fn = "rollback_transaction"
       /\ last.prior.fn = "commit_phase"
       /\ last.prior.tx = last.tx
       /\ last.prior.ret # "Ok"

\* C3: all-or-nothing: once commit_phase has returned and, after an error, the
\* caller has run rollback_transaction, the commit entry point has succeeded for
\* every operation of the transaction or for none.
C3_AllOrNothing ==
    CommitSettled =>
        \/ commitOk[last.tx] = {}
        \/ commitOk[last.tx] = OpIdsOf(last.before)

\* C4: a commit entry point is invoked only after the prepare entry point has
\* succeeded for every operation of the same transaction.
C4_CommitAfterAllPrepared ==
    \A j \in 1..Len(last.trace) :
        (IsCall(last.trace[j]) /\ last.trace[j].name = "commit") =>
            /\ last.fn = "commit_phase"
            /\ OpIdsOf(last.before) \subseteq prepareOk[last.tx]

C4_Witness ==
    /\ last.fn = "commit_phase"
    /\ Len(last.before.operations) >= 2
    /\ \E j \in 1..Len(last.trace) : IsCall(last.trace[j]) /\ last.trace[j].name = "commit"

\* C5: rollback_transaction calls the rollback entry point of exactly the
\* operations that are prepared and not committed, last operation first.
C5_RollbackReverseOrder ==
    last.fn = "rollback_transaction" =>
        LET calls == CallsOf(last.trace)
        IN /\ \A j \in 1..Len(calls) : calls[j].name = "rollback"
           /\ {calls[j].op : j \in 1..Len(calls)} = EligibleIds(last.before)
           /\ \A j1, j2 \in 1..Len(calls) :
                 j1 < j2 => FindOperation(last.before.operations, calls[j1].op)
                              > FindOperation(last.before.operations, calls[j2].op)

C5_Witness ==
    /\ last.fn = "rollback_transaction"
    /\ Len(CallsOf(last.trace)) >= 2
    /\ CallsOf(last.trace)[1].op = last.before.operations[Len(last.before.operations)].operation_id

\* C6: rollback_transaction is best-effort: every operation that is prepared
\* and not committed receives exactly one rollback call whatever the other
\* calls answer, and the result is RollbackFailed iff one of the calls failed.
C6_RollbackBestEffort ==
    last.fn = "rollback_transaction" =>
        /\ \A id \in OpIdsOf(last.before) :
              CallCount(last.trace, id) = IF id \in EligibleIds(last.before) THEN 1 ELSE 0
        /\ last.ret = IF AllCallsOk(last.trace) THEN "Ok" ELSE "RollbackFailed"

C6_Witness ==
    /\ last.fn = "rollback_transaction"
    /\ last.ret = "RollbackFailed"
    /\ Len(CallsOf(last.trace)) >= 2
    /\ ~CallsOf(last.trace)[1].ok

\* C7: after rollback_transaction returned Ok on a log, a second
\* rollback_transaction on that log makes no participant call and returns Ok.
C7_RollbackIdempotent ==
    ( /\ last.fn = "rollback_transaction"
      /\ last.prior.fn = "rollback_transaction"
      /\ last.prior.tx = last.tx
      /\ last.prior.ret = "Ok" ) =>
        /\ CallsOf(last.trace) = <<>>
        /\ last.ret = "Ok"

\* C8: prepare_phase on a log whose phase is not Initiated returns
\* InvalidPhase, calls no participant and leaves the in-memory and the
\* persisted log unchanged.
C8_PrepareRequiresInitiated ==
    (last.fn = "prepare_phase" /\ last.before.phase # "Initiated") =>
        /\ last.ret = "InvalidPhase"
        /\ CallsOf(last.trace) = <<>>
        /\ log[last.tx] = last.before
        /\ store[last.tx] = last.stored_before

\* C9: a log in phase Committed, RolledBack or TimedOut keeps its phase, in
\* memory and persisted, under prepare_phase, commit_phase,
\* rollback_transaction and partial_rollback.
C9_TerminalAbsorbing ==
    ( /\ last.fn \in {"prepare_phase", "commit_phase", "rollback_transaction",
                      "partial_rollback"}
      /\ last.tx \in TxIds
      /\ last.before.phase \in TerminalPhases ) =>
        /\ log[last.tx].phase = last.before.phase
        /\ store[last.tx].phase = last.stored_before.phase

\* C10: commit_phase on a log whose phase is not Prepared returns InvalidPhase,
\* invokes no commit entry point and leaves operations, phase, updated_at and
\* the persisted log unchanged.
C10_CommitRequiresPrepared ==
    (last.fn = "commit_phase" /\ last.before.phase # "Prepared") =>
        /\ last.ret = "InvalidPhase"
        /\ CallsOf(last.trace) = <<>>
        /\ log[last.tx].operations = last.before.operations
        /\ log[last.tx].phase = last.before.phase
        /\ log[last.tx].updated_at = last.before.updated_at
        /\ store[last.tx] = last.stored_before

C10_Witness ==
    /\ last.fn = "commit_phase"
    /\ last.before.phase \in {"Preparing", "Committed", "RolledBack", "TimedOut"}
    /\ \A i \in 1..Len(last.before.operations) : last.before.operations[i].prepared
    /\ last.ret = "InvalidPhase"

\* C11: when the commit call of operation k is the first to fail, commit_phase
\* returns ContractCallFailed, makes no commit call for k+1..n, and the log has
\* committed = true on operations 1..k-1 and committed = false on k..n.
C11_CommitFailureRecorded ==
    last.fn = "commit_phase" =>
        \A k \in 1..Len(last.before.operations) :
            Call("commit", last.before.operations[k].operation_id, FALSE)
                    \in {last.trace[j] : j \in 1..Len(last.trace)} =>
                /\ last.ret = "ContractCallFailed"
                /\ \A i \in (k + 1)..Len(last.before.operations) :
                      CallCount(last.trace, last.before.operations[i].operation_id) = 0
                /\ \A i \in 1..(k - 1) : log[last.tx].operations[i].committed
                /\ \A i \in k..Len(last.before.operations) :
                      ~log[last.tx].operations[i].committed

\* The transitions of the lifecycle state machine.
LifecycleTransitions ==
    {<<"Initiated", "Preparing">>, <<"Preparing", "Prepared">>, <<"Prepared", "Committed">>,
     <<"Preparing", "RolledBack">>, <<"Prepared", "RolledBack">>,
     <<"Preparing", "TimedOut">>, <<"Prepared", "TimedOut">>}

\* C12: validate_phase_transition returns Ok for every transition of the
\* lifecycle state machine, Initiated -> Preparing included.
C12_LifecycleTransitionsValid ==
    (val.fn = "validate_phase_transition" /\ val.args \in LifecycleTransitions) =>
        val.ret = "Ok"

\* C13: validate_phase_transition returns InvalidPhase for every pair of phases
\* that is not a lifecycle transition: every pair out of a terminal phase,
\* every backward pair and every self-pair.
C13_OtherTransitionsRejected ==
    (val.fn = "validate_phase_transition" /\ val.args \notin LifecycleTransitions) =>
        val.ret = "InvalidPhase"

C13_Witness ==
    /\ val.fn = "validate_phase_transition"
    /\ val.args = <<"Committed", "Preparing">>
    /\ val.ret = "InvalidPhase"

\* ---------------------------------------------------------------- admission
\* A transaction that holds nothing yet asks for admission while other
\* transactions hold the locks of the table.
InitAdmission ==
    /\ log \in {f \in [TxIds -> {NewLog(t, n) : t \in TxIds, n \in 1..MaxOps}] :
                   \A t \in TxIds : f[t].transaction_id = t}
    /\ store = log
    /\ now = 0
    /\ last = NoInvocation
    /\ prepareOk = [t \in TxIds |-> {}]
    /\ commitOk = [t \in TxIds |-> {}]
    /\ rollbackOk = [t \in TxIds |-> {}]
    /\ locks \in {table \in LockTables : \A i \in 1..Len(table) : table[i][2] \notin TxIds}
    /\ dd = NoDetection
    /\ val = NoCall
    /\ contracts = Deployed

\* The pre-admission check: would_cause_deadlock on the operations of the log.
AdmissionCheck(t) ==
    /\ dd.fn = "none"
    /\ dd' = [fn |-> "would_cause_deadlock", tx |-> t, operations |-> log[t].operations,
              locks |-> locks,
              result |-> would_cause_deadlock(locks, t, log[t].operations),
              infos |-> <<>>, events |-> <<>>, prior |-> NoDetection.prior]
    /\ UNCHANGED <<log, store, now, last, prepareOk, commitOk, rollbackOk, locks, val, contracts>>

\* The caller rejects the transaction when the check returned true and runs
\* prepare_phase when it returned false.
AdmittedPrepare(t) ==
    /\ dd.fn = "would_cause_deadlock"
    /\ dd.tx = t
    /\ ~dd.result
    /\ PreparePhase(t)

NextAdmission ==
    \/ \E t \in TxIds : AdmissionCheck(t)
    \/ \E t \in TxIds : AdmittedPrepare(t)

SpecAdmission == InitAdmission /\ [][NextAdmission]_vars

\* ---------------------------------------------------------------- stateless calls
\* Operations offered to validate_transaction: the fields at and around the
\* limits the validators test.
SampleOperations ==
    LET good == [contract_address |-> "addr", function_name |-> 1,
                 parameters |-> 0, locked_resources |-> <<1>>]
        shapes == {good,
                   [good EXCEPT !.function_name = MaxFunctionNameLen,
                                !.parameters = MAX_PARAMETERS_PER_OPERATION,
                                !.locked_resources = <<MaxResourceIdLen>>],
                   [good EXCEPT !.contract_address = "none"],
                   [good EXCEPT !.function_name = 0],
                   [good EXCEPT !.function_name = MaxFunctionNameLen + 1],
                   [good EXCEPT !.parameters = MAX_PARAMETERS_PER_OPERATION + 1],
                   [good EXCEPT !.locked_resources = <<0>>],
                   [good EXCEPT !.locked_resources = <<MaxResourceIdLen + 1>>]}
    IN {[operation_id |-> id, contract_address |-> sh.contract_address,
         function_name |-> sh.function_name, parameters |-> sh.parameters,
         locked_resources |-> sh.locked_resources] : id \in 0..MaxOps, sh \in shapes}

SampleOperationLists == UNION {[1..n -> SampleOperations] : n \in 0..MaxOps}

\* ---------------------------------------------------------------- participants' initialize
\* A call of initialize on a participant: val records the contract, the
\* arguments, the result and the storage the call found.
Initialize(contract, args, r) ==
    /\ val' = [fn |-> "initialize", contract |-> contract, args |-> args, ret |-> r.ret,
               before |-> contracts[contract]]
    /\ contracts' = [contracts EXCEPT ![contract] = r.storage]
    /\ UNCHANGED <<log, store, now, last, prepareOk, commitOk, rollbackOk, locks, dd>>

InitializeIdentity ==
    \E owner \in 1..NumAddr :
        Initialize("identity", <<owner>>, IdentityContract_initialize(contracts.identity, owner))

InitializeVisionRecords ==
    \E admin \in 1..NumAddr, authorized \in BOOLEAN :
        Initialize("vision_records", <<admin>>,
                   VisionRecordsContract_initialize(contracts.vision_records, admin, authorized))

InitializeZkVerifier ==
    \E admin \in 1..NumAddr :
        Initialize("zk_verifier", <<admin>>,
                   ZkVerifierContract_initialize(contracts.zk_verifier, admin))

NextParticipants ==
    \/ InitializeIdentity
    \/ InitializeVisionRecords
    \/ InitializeZkVerifier

SpecParticipants == Init /\ [][NextParticipants]_vars

\* ---------------------------------------------------------------- identity hooks
\* The identity contract initialized by owner 1, who has added some guardians
\* before: none, one fewer than the limit, or as many as the limit.  These
\* guardians have addresses above NumGuardians.
Owner == 1

GuardianCounts == {0, MAX_GUARDIANS - 1, MAX_GUARDIANS}

EarlierGuardians(n) == [i \in 1..n |-> NumGuardians + i]

\* val of a hook call also carries open, the <<caller, guardian>> pairs whose
\* prepare hook has succeeded and that were neither committed nor rolled back
\* since, and open_before, the pairs open when the call was made.
NoHookCall ==
    [fn |-> "none", args |-> <<>>, ret |-> "Ok", before |-> Deployed.identity,
     open |-> {}, open_before |-> {}]

InitIdentity ==
    /\ log = [t \in TxIds |-> NewLog(t, MaxOps)]
    /\ store = log
    /\ now = 0
    /\ last = NoInvocation
    /\ prepareOk = [t \in TxIds |-> {}]
    /\ commitOk = [t \in TxIds |-> {}]
    /\ rollbackOk = [t \in TxIds |-> {}]
    /\ locks = <<>>
    /\ dd = NoDetection
    /\ val = NoHookCall
    /\ \E n \in GuardianCounts :
          contracts = [Deployed EXCEPT !.identity =
              [IdentityContract_initialize(Deployed.identity, Owner).storage
                  EXCEPT !.guardians[Owner] = EarlierGuardians(n)]]

Hook(fn, caller, guardian, r, open) ==
    /\ val' = [fn |-> fn, args |-> <<caller, guardian>>, ret |-> r.ret,
               before |-> contracts.identity, open |-> open, open_before |-> val.open]
    /\ contracts' = [contracts EXCEPT !.identity = r.storage]
    /\ UNCHANGED <<log, store, now, last, prepareOk, commitOk, rollbackOk, locks, dd>>

PrepareAddGuardian(caller, guardian) ==
    LET r == prepare_add_guardian(contracts.identity, caller, guardian, now)
    IN Hook("prepare_add_guardian", caller, guardian, r,
            IF r.ret = "Ok" THEN val.open \cup {<<caller, guardian>>} ELSE val.open)

CommitAddGuardian(caller, guardian) ==
    LET r == commit_add_guardian(contracts.identity, caller, guardian)
    IN Hook("commit_add_guardian", caller, guardian, r,
            IF r.ret = "Ok" THEN val.open \ {<<caller, guardian>>} ELSE val.open)

RollbackAddGuardian(caller, guardian) ==
    LET r == rollback_add_guardian(contracts.identity, caller, guardian)
    IN Hook("rollback_add_guardian", caller, guardian, r, val.open \ {<<caller, guardian>>})

NextIdentity ==
    \E caller \in 1..NumAddr, guardian \in 1..NumGuardians :
        \/ PrepareAddGuardian(caller, guardian)
        \/ CommitAddGuardian(caller, guardian)
        \/ RollbackAddGuardian(caller, guardian)

SpecIdentity == InitIdentity /\ [][NextIdentity]_vars

\* ---------------------------------------------------------------- zk verifier
\* The verifier initialized by admin 1.  val of a call also carries issued,
\* the proof ids returned by the successful verify and prepare calls so far.
NoZkCall == [fn |-> "none", ret |-> "Ok", ids |-> <<>>, issued |-> {}]

InitZk ==
    /\ log = [t \in TxIds |-> NewLog(t, MaxOps)]
    /\ store = log
    /\ now = 0
    /\ last = NoInvocation
    /\ prepareOk = [t \in TxIds |-> {}]
    /\ commitOk = [t \in TxIds |-> {}]
    /\ rollbackOk = [t \in TxIds |-> {}]
    /\ locks = <<>>
    /\ dd = NoDetection
    /\ val = NoZkCall
    /\ contracts = [Deployed EXCEPT !.zk_verifier =
                       ZkVerifierContract_initialize(Deployed.zk_verifier, 1).storage]

\* Every proof is submitted by the same address.
Submitter == 1
Proofs == 1..NumProofs
ProofIds == 1..MaxProofId
SampleInputs == {<<>>, <<0>>}

\* A call of the verifier; calls that would hand out an id above MaxProofId
\* are left out.
ZkCall(fn, r) ==
    /\ \A i \in 1..Len(r.ids) : r.ids[i] \in ProofIds
    /\ val' = [fn |-> fn, ret |-> r.ret, ids |-> r.ids,
               issued |-> val.issued \cup {r.ids[i] : i \in 1..Len(r.ids)}]
    /\ contracts' = [contracts EXCEPT !.zk_verifier = r.storage]
    /\ UNCHANGED <<log, store, now, last, prepareOk, commitOk, rollbackOk, locks, dd>>

VerifyProof ==
    \E proof \in Proofs, public_inputs \in SampleInputs,
       authorized \in BOOLEAN, verified \in BOOLEAN :
        ZkCall("verify_proof",
               verify_proof(contracts.zk_verifier, Submitter, proof, public_inputs,
                            authorized, verified, now))

PrepareVerifyProof ==
    \E proof \in Proofs, public_inputs \in SampleInputs :
        ZkCall("prepare_verify_proof",
               prepare_verify_proof(contracts.zk_verifier, Submitter, proof, public_inputs, now))

CommitVerifyProof ==
    \E proof_id \in ProofIds, verified \in BOOLEAN :
        ZkCall("commit_verify_proof",
               commit_verify_proof(contracts.zk_verifier, proof_id, verified, now))

RollbackVerifyProof ==
    \E proof_id \in ProofIds :
        ZkCall("rollback_verify_proof", rollback_verify_proof(contracts.zk_verifier, proof_id))

PrepareBatchVerifyProofs ==
    \E n \in 0..MaxBatch, m \in 0..MaxBatch :
        \E proofs \in [1..n -> Proofs], public_inputs_batch \in [1..m -> SampleInputs] :
            ZkCall("prepare_batch_verify_proofs",
                   prepare_batch_verify_proofs(contracts.zk_verifier, Submitter, proofs,
                                               public_inputs_batch, now))

CommitBatchVerifyProofs ==
    \E n \in 0..MaxBatch :
        \E proof_ids \in [1..n -> ProofIds], verified \in [1..n -> BOOLEAN] :
            ZkCall("commit_batch_verify_proofs",
                   commit_batch_verify_proofs(contracts.zk_verifier, proof_ids, verified, now))

RollbackBatchVerifyProofs ==
    \E n \in 0..MaxBatch :
        \E proof_ids \in [1..n -> ProofIds] :
            ZkCall("rollback_batch_verify_proofs",
                   rollback_batch_verify_proofs(contracts.zk_verifier, proof_ids))

NextZk ==
    \/ VerifyProof
    \/ PrepareVerifyProof
    \/ CommitVerifyProof
    \/ RollbackVerifyProof
    \/ PrepareBatchVerifyProofs
    \/ CommitBatchVerifyProofs
    \/ RollbackBatchVerifyProofs

SpecZk == InitZk /\ [][NextZk]_vars

\* No stateless function has been applied yet.
Fresh == val.fn = "none"

\* A stateless function is applied to arguments and its result recorded.
Apply(fn, args, ret) ==
    /\ val' = [fn |-> fn, args |-> args, ret |-> ret]
    /\ UNCHANGED <<log, store, now, last, prepareOk, commitOk, rollbackOk, locks, dd, contracts>>

ValidateTransaction ==
    /\ Fresh
    /\ \E operations \in SampleOperationLists :
        Apply("validate_transaction", operations, validate_transaction(operations))

\* The validator is asked whether a log in from_phase may move to to_phase.
ValidateTransition ==
    /\ Fresh
    /\ \E from_phase \in Phases, to_phase \in Phases :
        Apply("validate_phase_transition", <<from_phase, to_phase>>,
              validate_phase_transition(from_phase, to_phase))

Addresses == 1..NumAddr

\* Timeouts at and next to the limits.
SampleTimeouts == {MIN_TIMEOUT_SECONDS - 1, MIN_TIMEOUT_SECONDS, MIN_TIMEOUT_SECONDS + 1,
                   MAX_TIMEOUT_SECONDS, MAX_TIMEOUT_SECONDS + 1}

SampleConfigs ==
    {[default_timeout |-> d, max_timeout |-> m, contract_timeouts |-> c] :
        d \in SampleTimeouts, m \in SampleTimeouts,
        c \in UNION {[1..n -> SampleTimeouts] : n \in 0..MaxTimeouts}}

ValidateConfigUpdate ==
    /\ Fresh
    /\ \E caller \in Addresses, admin \in Addresses, new_config \in SampleConfigs :
        Apply("validate_config_update", <<caller, admin, new_config>>,
              validate_config_update(caller, admin, new_config))

IsTransactionExpiredCheck ==
    /\ Fresh
    /\ \E created_at \in 0..U64_MAX, timeout_seconds \in 0..U64_MAX,
          current_timestamp \in 0..U64_MAX :
        Apply("is_transaction_expired_check",
              <<created_at, timeout_seconds, current_timestamp>>,
              is_transaction_expired_check(created_at, timeout_seconds, current_timestamp))

\* Function names: the prefixes, pieces of them and other characters, joined.
NameSegments == {PreparePrefix, CommitPrefix, RollbackPrefix,
                 <<"p", "r", "e", "p", "a", "r", "e">>, <<"_">>, <<"x">>}

RECURSIVE Concat(_)
Concat(segments) ==
    IF segments = <<>> THEN <<>> ELSE Head(segments) \o Concat(Tail(segments))

SampleNames == {Concat(segments) : segments \in UNION {[1..n -> NameSegments] : n \in 0..MaxSegs}}

\* Each derivation is applied to a name, and once more to its own result.
GetPrepareFunctionName ==
    /\ Fresh
    /\ \E function_name \in SampleNames :
        Apply("get_prepare_function_name", function_name,
              [once |-> get_prepare_function_name(function_name),
               twice |-> get_prepare_function_name(get_prepare_function_name(function_name))])

GetCommitFunctionName ==
    /\ Fresh
    /\ \E function_name \in SampleNames :
        Apply("get_commit_function_name", function_name,
              [once |-> get_commit_function_name(function_name),
               twice |-> get_commit_function_name(get_commit_function_name(function_name))])

GetRollbackFunctionName ==
    /\ Fresh
    /\ \E function_name \in SampleNames :
        Apply("get_rollback_function_name", function_name,
              [once |-> get_rollback_function_name(function_name),
               twice |-> get_rollback_function_name(get_rollback_function_name(function_name))])

NextValidation ==
    \/ ValidateTransaction
    \/ ValidateTransition
    \/ ValidateConfigUpdate
    \/ IsTransactionExpiredCheck
    \/ GetPrepareFunctionName
    \/ GetCommitFunctionName
    \/ GetRollbackFunctionName

SpecValidation == Init /\ [][NextValidation]_vars

\* ---------------------------------------------------------------- deadlock claims
\* The entries of a lock table, and the directed edges and nodes of a graph.
Held(table) == {table[i] : i \in 1..Len(table)}
Edges(graph) == {<<graph[i][1], graph[i][2]>> : i \in 1..Len(graph)}
Nodes(graph) == {e[1] : e \in Edges(graph)} \cup {e[2] : e \in Edges(graph)}

\* The nodes reached from the set S by 1..n edges of E.
RECURSIVE ReachableFrom(_, _, _)
ReachableFrom(E, S, n) ==
    IF n = 0 \/ S = {}
    THEN {}
    ELSE LET N == {e[2] : e \in {x \in E : x[1] \in S}}
         IN N \cup ReachableFrom(E, N, n - 1)

\* TRUE iff the graph contains a directed cycle.
HasDirectedCycle(graph) ==
    LET E == Edges(graph)
        N == {e[1] : e \in E} \cup {e[2] : e \in E}
        n == Cardinality(N)
    IN \E a \in N : a \in ReachableFrom(E, {a}, n)

\* TRUE iff no resource of the table is held by two different transactions.
NoSharedResource(table) ==
    \A i, k \in 1..Len(table) : table[i][1] = table[k][1] => table[i][2] = table[k][2]

\* The graph the latest detector call built.
GraphOfCall ==
    IF dd.fn = "would_cause_deadlock"
    THEN build_dependency_graph(dd.locks, dd.tx, dd.operations)
    ELSE build_current_dependency_graph(dd.locks)

Victims(infos) == [i \in 1..Len(infos) |-> infos[i].transaction_id]

\* C14: with T1 holding R1 and T2 holding R2 in the lock table,
\* would_cause_deadlock returns true for T1 with operations locking R1 and R2
\* and for T2 with operations locking R2 and R1.
C14_TwoTransactionDeadlock ==
    \A t1, t2 \in LockTxIds, r1, r2 \in Resources :
        (/\ dd.fn = "would_cause_deadlock"
         /\ t1 # t2 /\ r1 # r2
         /\ Len(dd.locks) = Cardinality(Held(dd.locks))
         /\ Held(dd.locks) = {<<r1, t1>>, <<r2, t2>>}
         /\ \/ dd.tx = t1 /\ WantedResources(dd.operations) = <<r1, r2>>
            \/ dd.tx = t2 /\ WantedResources(dd.operations) = <<r2, r1>>)
        => dd.result

\* TRUE iff the graph is over exactly three transactions and has the edges
\* a -> b -> c -> a.
ThreeCycle(graph, a, b, c) ==
    /\ a # b /\ b # c /\ a # c
    /\ Nodes(graph) = {a, b, c}
    /\ {<<a, b>>, <<b, c>>, <<c, a>>} \subseteq Edges(graph)

\* C15: for a lock table whose dependency graph is a cycle T1 -> T2 -> T3 -> T1
\* over three transactions, detect_and_resolve_deadlocks returns exactly one
\* DeadlockInfo, its victim the smallest of the three ids and its
\* conflicting_transactions holding all three.
C15_ThreeCycleOneDeadlock ==
    \A a, b, c \in LockTxIds :
        (dd.fn = "detect_and_resolve_deadlocks" /\ ThreeCycle(GraphOfCall, a, b, c)) =>
            /\ Len(dd.infos) = 1
            /\ dd.infos[1].transaction_id = MinOf(<<a, b, c>>)
            /\ {a, b, c} \subseteq {dd.infos[1].conflicting_transactions[i] :
                                      i \in 1..Len(dd.infos[1].conflicting_transactions)}

\* C16: when the dependency graph built by the call has no directed cycle,
\* would_cause_deadlock returns false and detect_and_resolve_deadlocks returns
\* an empty list; both hold for every lock table in which no resource is held
\* by two different transactions.
C16_NoCycleNoDeadlock ==
    /\ (dd.fn # "none" /\ ~HasDirectedCycle(GraphOfCall)) =>
           (~dd.result /\ dd.infos = <<>>)
    /\ (dd.fn # "none" /\ NoSharedResource(dd.locks)) =>
           (~dd.result /\ dd.infos = <<>>)

C16_Witness ==
    /\ dd.fn = "would_cause_deadlock"
    /\ GraphOfCall # <<>>
    /\ ~HasDirectedCycle(GraphOfCall)
    /\ NoSharedResource(dd.locks)
    /\ ~dd.result

C18_DetectionDecoupled ==
    [][dd' # dd => (locks' = locks /\ store' = store /\ log' = log)]_vars

C18_Witness ==
    /\ dd.fn = "detect_and_resolve_deadlocks"
    /\ \E i \in 1..Len(dd.infos) : dd.infos[i].transaction_id \in TxIds
    /\ \E i \in 1..Len(locks) : locks[i][2] \in TxIds

\* C19: a transaction for which would_cause_deadlock returned true never
\* reaches Prepared, and no transaction is in phase Prepared while a resource
\* its operations lock is held by another transaction.
C19_AdmissionEnforced ==
    \A t \in TxIds :
        log[t].phase = "Prepared" =>
            /\ ~(dd.fn = "would_cause_deadlock" /\ dd.tx = t /\ dd.result)
            /\ \A i \in 1..Len(log[t].operations), k \in 1..Len(locks) :
                   Contains(log[t].operations[i].locked_resources, locks[k][1]) =>
                       locks[k][2] = t

\* The <<resource, transaction id>> of the operations that are prepared and
\* neither rolled back nor part of a finished transaction.
PreparedUnfinished(t) ==
    {i \in 1..Len(store[t].operations) :
        /\ store[t].operations[i].prepared
        /\ i \notin rollbackOk[t]
        /\ store[t].phase \notin TerminalPhases}

HeldByPrepared ==
    {e \in Resources \X TxIds :
        \E i \in PreparedUnfinished(e[2]) :
            Contains(store[e[2]].operations[i].locked_resources, e[1])}

\* C20: the lock table holds exactly the resources of the prepared,
\* unfinished operations, each under the id of its transaction.
C20_LockTableMaintained ==
    Held(locks) = HeldByPrepared

\* C21: validate_transaction returns Ok exactly when the list is non-empty,
\* its operation ids are pairwise distinct and every operation passes the
\* per-field validation of validate_transaction_operation; InvalidInput otherwise.
C21_ValidateTransactionExact ==
    val.fn = "validate_transaction" =>
        LET operations == val.args
            valid == /\ operations # <<>>
                     /\ \A i, k \in 1..Len(operations) :
                            i # k => operations[i].operation_id # operations[k].operation_id
                     /\ \A k \in 1..Len(operations) :
                            validate_transaction_operation(operations[k]) = "Ok"
        IN val.ret = (IF valid THEN "Ok" ELSE "InvalidInput")

\* C22: can_commit is true exactly for a log in phase Prepared whose
\* operations are all prepared, and commit_phase returns InvalidPhase exactly
\* for the logs on which can_commit is false.
C22_CanCommitExactGuard ==
    /\ \A t \in TxIds :
           can_commit(log[t]) <=>
               (/\ log[t].phase = "Prepared"
                /\ \A i \in 1..Len(log[t].operations) : log[t].operations[i].prepared)
    /\ last.fn = "commit_phase" =>
           (last.ret = "InvalidPhase" <=> ~can_commit(last.before))

C22_Witness ==
    /\ last.fn = "commit_phase"
    /\ can_commit(last.before)
    /\ last.ret = "ContractCallFailed"

C24_CommittedImpliesPrepared ==
    \A t \in TxIds :
        /\ \A i \in 1..Len(log[t].operations) :
               log[t].operations[i].committed => log[t].operations[i].prepared
        /\ \A i \in 1..Len(store[t].operations) :
               store[t].operations[i].committed => store[t].operations[i].prepared

C24_Witness ==
    /\ last.fn = "partial_rollback"
    /\ last.ids # <<>>
    /\ last.prior.fn = "commit_phase"
    /\ last.prior.ret = "Ok"
    /\ \E t \in TxIds : \E i \in 1..Len(store[t].operations) : store[t].operations[i].committed

\* C30: when partial_rollback returns InvalidPhase or OperationNotFound, it has
\* made no rollback call.
C30_PartialRollbackFailsClosed ==
    (last.fn = "partial_rollback" /\ last.ret \in {"InvalidPhase", "OperationNotFound"}) =>
        CallsOf(last.trace) = <<>>

\* C29: rollback_transaction never calls the rollback entry point of an
\* operation whose commit call has succeeded at its participant.
C29_NoRollbackAfterCommit ==
    last.fn = "rollback_transaction" =>
        \A j \in 1..Len(last.trace) :
            (IsCall(last.trace[j]) /\ last.trace[j].name = "rollback") =>
                last.trace[j].op \notin commitOk[last.tx]

\* C25: validate_config_update returns Unauthorized whenever caller differs
\* from admin; for the admin it returns Ok exactly when default_timeout is in
\* 30..604800, max_timeout >= default_timeout and every contract timeout is in
\* 30..604800, and InvalidInput otherwise.
C25_ConfigUpdateExact ==
    val.fn = "validate_config_update" =>
        LET caller == val.args[1]
            admin == val.args[2]
            config == val.args[3]
            valid == /\ config.default_timeout \in 30..604800
                     /\ config.max_timeout >= config.default_timeout
                     /\ \A k \in 1..Len(config.contract_timeouts) :
                            config.contract_timeouts[k] \in 30..604800
        IN val.ret = (IF caller # admin THEN "Unauthorized"
                      ELSE IF valid THEN "Ok" ELSE "InvalidInput")

C25_Witness ==
    /\ val.fn = "validate_config_update"
    /\ val.args[1] = val.args[2]
    /\ val.args[3].default_timeout = 30
    /\ val.args[3].max_timeout = 604800
    /\ val.args[3].contract_timeouts = <<604800, 604801>>
    /\ val.ret = "InvalidInput"

\* C26: is_transaction_expired_check is true exactly when now exceeds
\* created_at + timeout_seconds taken without wrap-around: never when the sum
\* passes the largest word, and not at now = created_at + timeout_seconds.
C26_ExpiryWithoutWrapAround ==
    val.fn = "is_transaction_expired_check" =>
        LET sum == val.args[1] + val.args[2]
        IN val.ret = (sum < U64_MAX /\ val.args[3] > sum)

C26_Witness ==
    /\ val.fn = "is_transaction_expired_check"
    /\ val.args[1] + val.args[2] > U64_MAX
    /\ val.args[3] > (val.args[1] + val.args[2]) % (U64_MAX + 1)
    /\ val.ret = FALSE

\* The prefix a derivation function puts in front of a name.
PrefixOf(fn) ==
    IF fn = "get_prepare_function_name" THEN PreparePrefix
    ELSE IF fn = "get_commit_function_name" THEN CommitPrefix
    ELSE RollbackPrefix

DerivationCalls ==
    {"get_prepare_function_name", "get_commit_function_name", "get_rollback_function_name"}

\* C27: a derived name starts with the prefix, is the given name when that
\* already starts with the prefix and the prefix followed by the name
\* otherwise, and deriving again changes nothing.
C27_DerivationIdempotent ==
    val.fn \in DerivationCalls =>
        LET p == PrefixOf(val.fn)
            f == val.args
        IN /\ SubSeq(val.ret.once, 1, Len(p)) = p
           /\ val.ret.once = (IF Len(f) >= Len(p) /\ \A i \in 1..Len(p) : f[i] = p[i]
                              THEN f ELSE p \o f)
           /\ val.ret.twice = val.ret.once

C27_Witness ==
    /\ val.fn = "get_rollback_function_name"
    /\ val.args = RollbackPrefix \o <<"x">>
    /\ val.ret.once = val.args
    /\ val.ret.twice = val.args

\* C28: in identity, vision_records and zk_verifier an initialize call returns
\* Ok only on a contract that is not initialized, and then the admin and the
\* initialized flag are stored; on an initialized contract it returns
\* AlreadyInitialized and the stored admin is the one of the first call.
C28_InitializeOnce ==
    val.fn = "initialize" =>
        LET storage == contracts[val.contract]
        IN /\ val.before.initialized =>
                  /\ val.ret = "AlreadyInitialized"
                  /\ storage = val.before
           /\ val.ret = "Ok" =>
                  /\ ~val.before.initialized
                  /\ storage.initialized
                  /\ storage.admin = val.args[1]
           /\ val.ret \notin {"Ok", "AlreadyInitialized"} => storage = val.before
           /\ \A c \in Participants :
                  contracts[c].initialized <=> contracts[c].admin # NoAddress

C28_Witness ==
    /\ val.fn = "initialize"
    /\ val.contract = "zk_verifier"
    /\ val.ret = "AlreadyInitialized"
    /\ contracts.zk_verifier.admin # val.args[1]
    /\ contracts.identity.initialized
    /\ contracts.vision_records.initialized

\* C33: a log whose phase is Prepared, in memory or persisted, has prepared =
\* true on every operation; when prepare_phase returns ContractCallFailed both
\* logs have phase Preparing.
C33_PreparedPhaseAllPrepared ==
    /\ \A t \in TxIds :
           /\ log[t].phase = "Prepared" =>
                  \A i \in 1..Len(log[t].operations) : log[t].operations[i].prepared
           /\ store[t].phase = "Prepared" =>
                  \A i \in 1..Len(store[t].operations) : store[t].operations[i].prepared
    /\ (last.fn = "prepare_phase" /\ last.ret = "ContractCallFailed") =>
           /\ log[last.tx].phase = "Preparing"
           /\ store[last.tx].phase = "Preparing"
    /\ (last.fn = "prepare_phase" /\ log[last.tx].phase = "Prepared") =>
           /\ last.ret = "Ok"
           /\ AllCallsOk(last.trace)
           /\ CallsOf(last.trace) =
                  [i \in 1..Len(last.before.operations) |->
                      Call("prepare", last.before.operations[i].operation_id, TRUE)]

C33_Witness ==
    /\ last.fn = "prepare_phase"
    /\ last.ret = "ContractCallFailed"
    /\ last.before.phase = "Prepared"
    /\ Len(CallsOf(last.trace)) > 1

\* C34: when commit_phase returns Ok the phase of the log is still Prepared in
\* memory and in storage, only the committed flags and updated_at differ from
\* the log it was given, and it has published no transaction-committed event.
C34_CommitLeavesPhase ==
    (last.fn = "commit_phase" /\ last.ret = "Ok") =>
        LET l == log[last.tx]
            b == last.before
        IN /\ l.phase = "Prepared"
           /\ store[last.tx] = l
           /\ l = [b EXCEPT !.operations = [i \in 1..Len(b.operations) |->
                                               [b.operations[i] EXCEPT !.committed = TRUE]],
                            !.updated_at = l.updated_at]
           /\ l.updated_at \in b.updated_at..now
           /\ \A j \in 1..Len(last.trace) :
                  last.trace[j].name \in {"commit", "operation_committed"}

C34_Witness ==
    /\ last.fn = "commit_phase"
    /\ last.ret = "Ok"
    /\ Len(last.before.operations) > 1
    /\ log[last.tx].updated_at > last.before.updated_at

\* The events of the given name in tr.
EventsNamed(tr, name) == {j \in 1..Len(tr) : tr[j].kind = "event" /\ tr[j].name = name}

\* C35: in prepare_phase the operation-prepared event of an operation comes
\* right after its successful prepare call and before the next prepare call;
\* a failed call is followed by the operation-failed event of that operation
\* and by nothing else; the transaction-prepared event is published once, last,
\* and only when every prepare call succeeded.
C35_PrepareEventsFollowCalls ==
    last.fn = "prepare_phase" =>
        LET tr == last.trace
            n == Len(last.before.operations)
            calls == CallsOf(tr)
        IN /\ \A c \in 1..Len(calls) :
                  /\ calls[c].name = "prepare"
                  /\ calls[c].op = last.before.operations[c].operation_id
           /\ \A j \in EventsNamed(tr, "operation_prepared") :
                  j > 1 /\ tr[j - 1] = Call("prepare", tr[j].op, TRUE)
           /\ \A j \in 1..Len(tr) :
                  (IsCall(tr[j]) /\ tr[j].ok) =>
                      j < Len(tr) /\ tr[j + 1] = Event("operation_prepared", tr[j].op)
           /\ \A j \in 1..Len(tr) :
                  (IsCall(tr[j]) /\ ~tr[j].ok) =>
                      /\ tr[Len(tr)] = Event("operation_failed", tr[j].op)
                      /\ EventsNamed(tr, "operation_failed") = {Len(tr)}
                      /\ \A i \in (j + 1)..Len(tr) :
                             /\ ~IsCall(tr[i])
                             /\ tr[i].name \notin {"operation_prepared", "transaction_prepared"}
           /\ EventsNamed(tr, "transaction_prepared") =
                  (IF AllCallsOk(tr) /\ Len(calls) = n THEN {Len(tr)} ELSE {})
           /\ (last.ret = "Ok") <=> (EventsNamed(tr, "transaction_prepared") # {})

C35_Witness ==
    /\ last.fn = "prepare_phase"
    /\ Len(CallsOf(last.trace)) > 1
    /\ ~AllCallsOk(last.trace)
    /\ EventsNamed(last.trace, "operation_prepared") # {}

\* C38: a commit_phase call does not invoke the commit entry point of an
\* operation whose commit call has succeeded in an earlier commit_phase call.
C38_CommitAtMostOnce ==
    [][(last' # last /\ last'.fn = "commit_phase") =>
           \A j \in 1..Len(last'.trace) :
               (IsCall(last'.trace[j]) /\ last'.trace[j].name = "commit") =>
                   last'.trace[j].op \notin commitOk[last'.tx]]_vars

\* The pairs of different transactions that hold one resource in the table.
SharingPairs(table) ==
    {<<table[i][2], table[k][2]>> : <<i, k>> \in
        {p \in (1..Len(table)) \X (1..Len(table)) :
            table[p[1]][1] = table[p[2]][1] /\ table[p[1]][2] # table[p[2]][2]}}

\* The transactions of a DeadlockInfo.
ConflictSet(info) ==
    {info.conflicting_transactions[i] : i \in 1..Len(info.conflicting_transactions)}

\* C31: when some resource of the lock table is held by two different
\* transactions, would_cause_deadlock returns true whatever the candidate and
\* its operations are, and detect_and_resolve_deadlocks returns a DeadlockInfo
\* that contains both holders.
C31_SharingIsDeadlock ==
    /\ (dd.fn = "would_cause_deadlock" /\ SharingPairs(dd.locks) # {}) => dd.result
    /\ dd.fn = "detect_and_resolve_deadlocks" =>
           \A pair \in SharingPairs(dd.locks) :
               \E i \in 1..Len(dd.infos) : {pair[1], pair[2]} \subseteq ConflictSet(dd.infos[i])

C31_Witness ==
    /\ dd.fn = "would_cause_deadlock"
    /\ SharingPairs(dd.locks) # {}
    /\ \A i \in 1..Len(dd.locks) : dd.locks[i][2] # dd.tx
    /\ \A k \in 1..Len(dd.operations) :
           \A r \in 1..Len(dd.operations[k].locked_resources) :
               \A i \in 1..Len(dd.locks) :
                   dd.locks[i][1] # dd.operations[k].locked_resources[r]
    /\ dd.result

\* C32: detect_and_resolve_deadlocks returns no two DeadlockInfo entries with
\* the same set of conflicting transactions.
C32_EachCycleOnce ==
    dd.fn = "detect_and_resolve_deadlocks" =>
        \A i, k \in 1..Len(dd.infos) :
            ConflictSet(dd.infos[i]) = ConflictSet(dd.infos[k]) => i = k

\* C37: would_cause_deadlock returns true exactly when some resource of the
\* lock table is held by two different transactions, whatever the candidate
\* transaction and its operations are.
C37_CandidateIndependent ==
    dd.fn = "would_cause_deadlock" => (dd.result <=> SharingPairs(dd.locks) # {})

C37_Witness ==
    /\ dd.fn = "would_cause_deadlock"
    /\ ~dd.result
    /\ \E k \in 1..Len(dd.operations) : \E i \in 1..Len(dd.locks) :
           /\ dd.locks[i][1] = dd.operations[k].locked_resources[1]
           /\ dd.locks[i][2] # dd.tx
    /\ \E i \in 1..Len(dd.locks) : dd.locks[i][2] = dd.tx

\* C36: commit_add_guardian changes the guardian list only for a pair whose
\* prepare hook succeeded and that was neither committed nor rolled back
\* since; for any other pair it returns Unauthorized and leaves the list
\* unchanged; prepare_add_guardian never changes the list.
C36_CommitNeedsPreparation ==
    /\ val.fn = "commit_add_guardian" =>
           /\ contracts.identity.guardians # val.before.guardians =>
                  /\ val.args \in val.open_before
                  /\ val.ret = "Ok"
           /\ val.args \notin val.open_before =>
                  /\ val.ret = "Unauthorized"
                  /\ contracts.identity.guardians = val.before.guardians
    /\ val.fn = "prepare_add_guardian" =>
           contracts.identity.guardians = val.before.guardians

C36_Witness ==
    /\ val.fn = "commit_add_guardian"
    /\ val.ret = "Ok"
    /\ val.args \in val.open_before
    /\ val.args \notin val.open
    /\ contracts.identity.guardians[val.args[1]] =
           Append(val.before.guardians[val.args[1]], val.args[2])

\* C40: commit_add_guardian succeeds for every pair whose prepare hook
\* succeeded and that was neither committed nor rolled back since.
C40_PrepareReservesOutcome ==
    (val.fn = "commit_add_guardian" /\ val.args \in val.open_before) => val.ret = "Ok"

\* TRUE iff every entry of before that is still in after is the same proof of
\* the same submitter.
NotOverwritten(before, after) ==
    \A id \in DOMAIN before \cap DOMAIN after :
        /\ after[id].submitter = before[id].submitter
        /\ after[id].public_inputs = before[id].public_inputs
        /\ after[id].timestamp = before[id].timestamp

\* C39: no successful verify or prepare call of the zk verifier returns a proof
\* id an earlier one returned, the proof counter never decreases, and no call
\* replaces a pending preparation or a stored VerificationResult.
C39_ProofIdsUnique ==
    [][LET before == contracts.zk_verifier
           after == contracts'.zk_verifier
       IN /\ \A i \in 1..Len(val'.ids) : val'.ids[i] \notin val.issued
          /\ after.proof_counter >= before.proof_counter
          /\ \A id \in DOMAIN before.prepared \cap DOMAIN after.prepared :
                 after.prepared[id] = before.prepared[id]
          /\ \A id \in DOMAIN before.batch_prepared \cap DOMAIN after.batch_prepared :
                 after.batch_prepared[id] = before.batch_prepared[id]
          /\ NotOverwritten(before.results, after.results)]_vars

====
